---- MODULE Spec2Model ----
(***************************************************************************)
(* A model of Tonto's card game: the Card score, the Deck, the Player and  *)
(* Players classes (player.py) with the leaderboard computation, and the   *)
(* Game class (game.py) with its play() loop.                              *)
(*                                                                         *)
(* Python objects are modelled by value: a Card is a record [suit, rank],  *)
(* a Deck is the sequence Deck._deck (the top of the deck is the last      *)
(* element), a Player is a record [name, hand], and Players._players is a  *)
(* sequence of Player records.  A reference to a Player object is its      *)
(* index in Players._players, which is its registration position.          *)
(***************************************************************************)
EXTENDS Integers, Sequences, FiniteSets, TLC

(***************************************************************************)
(* Bounds of the model.                                                    *)
(***************************************************************************)
\* The standard deck is cut down to its DeckSize topmost cards.
DeckSize == 3
\* The largest deck handed to the Game constructor.
MaxCustomDeck == 1
\* The largest max_rounds argument handed to the Game constructor.
MaxRounds == 2
\* The number of draw_card calls made directly on a Players object.
MaxDraws == 3
\* The most cards add_card puts into a deck that is used by itself.
MaxDeckLen == 4

(***************************************************************************)
(* card.py                                                                 *)
(***************************************************************************)
\* Card.SUIT: Spades = 1, Diamonds = 2, Hearts = 3, Clubs = 4.
SUIT == 1..4

\* Card.RANK: "2" = 2, ..., "10" = 10, Jack = 11, Queen = 12, King = 13, Ace = 14.
RANK == 2..14

\* A score that forgets the suit.
card_score_rank_only(card) == card.rank

\* Card.score
card_score(card) == card.suit * card.rank

(***************************************************************************)
(* deck.py                                                                 *)
(***************************************************************************)
\* A deck that runs through the suits inside every rank.
standard_deck_rank_major ==
    [i \in 1..(Cardinality(SUIT) * Cardinality(RANK)) |->
        [suit |-> 1 + ((i - 1) % Cardinality(SUIT)),
         rank |-> 2 + ((i - 1) \div Cardinality(SUIT))]]

\* The list comprehension of Deck._initiate_deck: suit-major, rank-minor.
standard_deck ==
    [i \in 1..(Cardinality(SUIT) * Cardinality(RANK)) |->
        [suit |-> 1 + ((i - 1) \div Cardinality(RANK)),
         rank |-> 2 + ((i - 1) % Cardinality(RANK))]]

\* Deck._initiate_deck, keeping the DeckSize topmost cards of the deck.
initiate_deck ==
    SubSeq(standard_deck, Len(standard_deck) - DeckSize + 1, Len(standard_deck))

\* A shuffle that loses the top card.
shuffle_outcomes_losing_top(d) ==
    {[i \in 1..(Len(d) - 1) |-> d[f[i]]] : f \in Permutations(1..(Len(d) - 1))}

\* Random.shuffle: every rearrangement of the list is a possible outcome.
shuffle_outcomes(d) ==
    {[i \in 1..Len(d) |-> d[f[i]]] : f \in Permutations(1..Len(d))}

\* The cards the callers of the model hand in (to draw_card, in custom decks):
\* Card("Clubs", "3"), Card("Hearts", "4") and Card("Spades", "King").
Cards == {[suit |-> 4, rank |-> 3], [suit |-> 3, rank |-> 4], [suit |-> 1, rank |-> 13]}

(***************************************************************************)
(* player.py: Player                                                       *)
(***************************************************************************)
RECURSIVE sum_scores(_)
\* sum([card.score for card in self.hand])
sum_scores(hand) ==
    IF hand = <<>> THEN 0 ELSE card_score(Head(hand)) + sum_scores(Tail(hand))

\* Player.score with an index that is off by one.
score_off_by_one(player, round_number) ==
    IF round_number # 0
    THEN IF round_number >= Len(player.hand)
         THEN 0
         ELSE card_score(player.hand[round_number + 1])
    ELSE sum_scores(player.hand)

\* Player.score with a total that forgets the first card drawn.
score_forgets_first(player, round_number) ==
    IF round_number # 0
    THEN IF round_number > Len(player.hand)
         THEN 0
         ELSE card_score(player.hand[round_number])
    ELSE IF player.hand = <<>> THEN 0 ELSE sum_scores(Tail(player.hand))

\* Player.score: hand[round_number - 1] of the 0-indexed list is element
\* round_number of the 1-indexed sequence.
score(player, round_number) ==
    IF round_number # 0
    THEN IF round_number > Len(player.hand)
         THEN 0
         ELSE card_score(player.hand[round_number])
    ELSE sum_scores(player.hand)

\* Player.__init__
new_player(name) == [name |-> name, hand |-> <<>>]

\* A draw that puts the card in front of the cards drawn before.
player_draw_card_in_front(player, card) == [player EXCEPT !.hand = <<card>> \o @]

\* A draw that takes the card twice.
player_draw_card_twice(player, card) ==
    [player EXCEPT !.hand = Append(Append(@, card), card)]

\* Player.draw_card (Deck.add_card appends to the hand)
player_draw_card(player, card) == [player EXCEPT !.hand = Append(@, card)]

\* Player.clear_hand
player_clear_hand(player) == [player EXCEPT !.hand = <<>>]

(***************************************************************************)
(* player.py: PLACE, EMPTY_PLACE and Players._get_leaderboard              *)
(***************************************************************************)
\* Python's None where a Player object is expected, and where a name is.
NoPlayer == 0
NoName == "<None>"

\* EMPTY_PLACE = PLACE(None, [], None, [], 0, 0, False)
EMPTY_PLACE ==
    [player |-> NoPlayer, players |-> <<>>, name |-> NoName, names |-> <<>>,
     place |-> 0, score |-> 0, tie |-> FALSE]

\* The sort key of every player: lambda x: x.score(rn)
sort_key(ps, rn) == [j \in 1..Len(ps) |-> score(ps[j], rn)]

RECURSIVE insert_unstable(_, _, _)
\* An insertion that puts a player before the players of equal key.
insert_unstable(x, s, key) ==
    IF s = <<>> THEN <<x>>
    ELSE IF key[Head(s)] > key[x]
         THEN <<Head(s)>> \o insert_unstable(x, Tail(s), key)
         ELSE <<x>> \o s

RECURSIVE insert_desc(_, _, _)
\* sorted(..., reverse=True) is stable: a player goes behind every player
\* of greater or equal key that precedes it in the list sorted.
insert_desc(x, s, key) ==
    IF s = <<>> THEN <<x>>
    ELSE IF key[Head(s)] >= key[x]
         THEN <<Head(s)>> \o insert_desc(x, Tail(s), key)
         ELSE <<x>> \o s

RECURSIVE sorted_prefix(_, _)
\* The first n players of the list, sorted by descending key.
sorted_prefix(n, key) ==
    IF n = 0 THEN <<>> ELSE insert_desc(n, sorted_prefix(n - 1, key), key)

\* l_b = sorted(self._players, key=lambda x: x.score(rn), reverse=True)
sorted_players(ps, rn) == sorted_prefix(Len(ps), sort_key(ps, rn))

\* An inner loop that never takes a second player into lis.
group_end_single(l_b, key, i, sc) == i + 1

RECURSIVE group_end(_, _, _, _)
\* The inner while loop: i advances while l_b[i] has the score of player.
group_end(l_b, key, i, sc) ==
    IF i <= Len(l_b) /\ sc = key[l_b[i]]
    THEN group_end(l_b, key, i + 1, sc)
    ELSE i

\* A PLACE whose tie flag is set for every place.
make_place_always_tie(ps, lis, place, sc) ==
    [player |-> lis[1],
     players |-> lis,
     name |-> ps[lis[1]].name,
     names |-> [j \in 1..Len(lis) |-> ps[lis[j]].name],
     place |-> place,
     score |-> sc,
     tie |-> Len(lis) > 0]

\* place_nt = PLACE(player=lis[0], players=lis, name=..., names=..., ...)
make_place(ps, lis, place, sc) ==
    [player |-> lis[1],
     players |-> lis,
     name |-> ps[lis[1]].name,
     names |-> [j \in 1..Len(lis) |-> ps[lis[j]].name],
     place |-> place,
     score |-> sc,
     tie |-> Len(lis) > 1]

\* A place counter that advances by the size of the group.
next_place_by_count(place, lis) == place + Len(lis)

\* place += 1
next_place(place, lis) == place + 1

\* l_b_dict[place] = place_nt on a dict kept as the sequence of its
\* <<key, value>> items in insertion order.
dict_set(d, k, v) ==
    IF \E j \in 1..Len(d) : d[j][1] = k
    THEN [j \in 1..Len(d) |-> IF d[j][1] = k THEN <<k, v>> ELSE d[j]]
    ELSE Append(d, <<k, v>>)

\* A lookup that answers with the last item when the key is missing.
dict_get_last(d, k, default) ==
    IF \E j \in 1..Len(d) : d[j][1] = k
    THEN d[CHOOSE j \in 1..Len(d) : d[j][1] = k][2]
    ELSE IF d = <<>> THEN default ELSE d[Len(d)][2]

\* dict.get(k, default)
dict_get(d, k, default) ==
    IF \E j \in 1..Len(d) : d[j][1] = k
    THEN d[CHOOSE j \in 1..Len(d) : d[j][1] = k][2]
    ELSE default

RECURSIVE sweep(_, _, _, _, _, _)
\* The outer while loop of _get_leaderboard, from position i (1-indexed).
sweep(ps, l_b, key, i, place, l_b_dict) ==
    IF i > Len(l_b) THEN l_b_dict
    ELSE LET sc == key[l_b[i]]
             j == group_end(l_b, key, i, sc)
             lis == SubSeq(l_b, i, j - 1)
         IN sweep(ps, l_b, key, j, next_place(place, lis),
                  dict_set(l_b_dict, place, make_place(ps, lis, place, sc)))

\* Players._get_leaderboard
get_leaderboard(ps, rn) ==
    sweep(ps, sorted_players(ps, rn), sort_key(ps, rn), 1, 1, <<>>)

\* Players.first, Players.second, Players.third
first(ps, rn) == dict_get(get_leaderboard(ps, rn), 1, EMPTY_PLACE)
second(ps, rn) == dict_get(get_leaderboard(ps, rn), 2, EMPTY_PLACE)
third(ps, rn) == dict_get(get_leaderboard(ps, rn), 3, EMPTY_PLACE)

\* The accessor of a position: 1 is first, 2 is second, 3 is third.
place_accessor(ps, pos, rn) ==
    CASE pos = 1 -> first(ps, rn)
      [] pos = 2 -> second(ps, rn)
      [] pos = 3 -> third(ps, rn)

(***************************************************************************)
(* player.py: Players.__str__.  A string is the sequence of its pieces: a  *)
(* number formatted in decimal, a name, or a literal of the template.      *)
(***************************************************************************)
\* "{place}: {player} ({score})".format(...)
format_line(place, name, sc) ==
    <<ToString(place), ": ", name, " (", ToString(sc), ")">>

RECURSIVE place_lines(_, _, _)
\* The inner for loop of __str__: one line for each name of the place.
place_lines(place, place_nt, j) ==
    IF j > Len(place_nt.names) THEN <<>>
    ELSE <<format_line(place, place_nt.names[j], place_nt.score)>>
         \o place_lines(place, place_nt, j + 1)

RECURSIVE leaderboard_list(_, _)
\* The outer for loop of __str__ over leaderboard.items().
leaderboard_list(leaderboard, j) ==
    IF j > Len(leaderboard) THEN <<>>
    ELSE place_lines(leaderboard[j][1], leaderboard[j][2], 1)
         \o leaderboard_list(leaderboard, j + 1)

RECURSIVE join_trailing(_)
\* A join that ends every line, the last one too, with a newline.
join_trailing(lines) ==
    IF lines = <<>> THEN <<>> ELSE Head(lines) \o <<"\n">> \o join_trailing(Tail(lines))

RECURSIVE join(_)
\* "\n".join(leaderboard_list)
join(lines) ==
    IF lines = <<>> THEN <<>>
    ELSE IF Len(lines) = 1 THEN Head(lines)
         ELSE Head(lines) \o <<"\n">> \o join(Tail(lines))

\* Players.__str__
players_str(ps) == join(leaderboard_list(get_leaderboard(ps, 0), 1))

(***************************************************************************)
(* player.py: Players.__init__ and Players.reset                           *)
(***************************************************************************)
\* What hasattr finds on a Players object before any name is set: the two
\* attributes __init__ assigns first and the attributes of the class.
PlayersAttributes ==
    {"_current_player", "_players", "reset", "first", "second", "third",
     "_get_leaderboard", "__init__", "__getitem__", "__iter__", "__len__",
     "__next__", "__str__", "__eq__", "__class__", "__dict__", "__doc__",
     "__module__"}

\* A hasattr that knows the names set so far and nothing else.
has_attr_names_only(ps, name) ==
    \E j \in 1..Len(ps) : ps[j].name = name

\* hasattr(self, name), ps being the players appended (and set) so far.
has_attr(ps, name) ==
    \/ name \in PlayersAttributes
    \/ \E j \in 1..Len(ps) : ps[j].name = name

RECURSIVE players_init_from(_, _, _)
\* The for loop of Players.__init__ from names[i]; the raise ends it.
players_init_from(names, i, ps) ==
    IF i > Len(names) THEN [error |-> "", players |-> ps]
    ELSE IF has_attr(ps, names[i])
         THEN [error |-> "InvalidPlayerError", players |-> <<>>]
         ELSE players_init_from(names, i + 1, Append(ps, new_player(names[i])))

\* Players.__init__
players_init(names) == players_init_from(names, 1, <<>>)

\* A reset that clears the hand of the first player alone.
players_reset_first_only(ps) ==
    [j \in 1..Len(ps) |-> IF j = 1 THEN player_clear_hand(ps[j]) ELSE ps[j]]

\* Players.reset
players_reset(ps) == [j \in 1..Len(ps) |-> player_clear_hand(ps[j])]

(***************************************************************************)
(* deck.py: Deck.get_card                                                  *)
(***************************************************************************)
NoCard == [suit |-> 0, rank |-> 0]

\* A get_card that takes the card at the bottom.
get_card_from_bottom(d) ==
    IF d = <<>>
    THEN [error |-> "DeckEmptyError", card |-> NoCard, deck |-> d]
    ELSE [error |-> "", card |-> d[1], deck |-> SubSeq(d, 2, Len(d))]

\* A get_card that returns the top card and leaves it in the deck.
get_card_keeping(d) ==
    IF d = <<>>
    THEN [error |-> "DeckEmptyError", card |-> NoCard, deck |-> d]
    ELSE [error |-> "", card |-> d[Len(d)], deck |-> d]

\* Deck.get_card: list.pop() takes the last element; DeckEmptyError on [].
get_card(d) ==
    IF d = <<>>
    THEN [error |-> "DeckEmptyError", card |-> NoCard, deck |-> d]
    ELSE [error |-> "", card |-> d[Len(d)], deck |-> SubSeq(d, 1, Len(d) - 1)]

(***************************************************************************)
(* The inputs of the model.                                                *)
(***************************************************************************)
\* The name lists handed to Players and to Game.
NameLists ==
    {<<>>,
     <<"Berkelly">>,
     <<"Berkelly", "Cez">>,
     <<"Tonto", "Berkelly">>,
     <<"Berkelly", "Cez", "Tonto">>,
     <<"Berkelly", "Berkelly">>,
     <<"Cez", "Tonto", "Cez">>,
     <<"first">>,
     <<"Berkelly", "reset">>}

\* The name lists a Players object can be made of.
ValidNameLists == {names \in NameLists : players_init(names).error = ""}

RECURSIVE SeqsUpTo(_, _)
\* The sequences over S of length at most n.
SeqsUpTo(S, n) ==
    IF n = 0 THEN {<<>>}
    ELSE LET shorter == SeqsUpTo(S, n - 1)
         IN shorter \cup {Append(s, x) : s \in {t \in shorter : Len(t) = n - 1}, x \in S}

\* The deck argument of Game: None, or a Deck holding up to MaxCustomDeck cards.
DeckArguments ==
    {[given |-> FALSE, cards |-> <<>>]}
    \cup {[given |-> TRUE, cards |-> d] : d \in SeqsUpTo(Cards, MaxCustomDeck)}

\* The round selectors asked of the leaderboard.
RoundSelectors == 0..(MaxDraws + 1)

(***************************************************************************)
(* The state.                                                              *)
(***************************************************************************)
VARIABLES
    players,        \* Players._players (Game.players._players)
    deck,           \* Game._deck._deck
    current_round,  \* Game._current_round
    is_active,      \* Game._is_active
    max_rounds,     \* Game._max_rounds
    pc,             \* where the caller, or play(), stands
    turn,           \* the position of the for loop of _next_round
    out,            \* the messages displayed and printed, in order
    args,           \* the arguments the Game constructor was called with
    error,          \* the exception the constructor raised, "" if none
    res             \* the value the last call on the Players object returned

vars == <<players, deck, current_round, is_active, max_rounds, pc, turn, out,
          args, error, res>>

NoArgs == [names |-> <<>>, deck |-> [given |-> FALSE, cards |-> <<>>],
           max_rounds |-> 0, messages |-> FALSE]

NoGame ==
    /\ players = <<>>
    /\ deck = <<>>
    /\ current_round = 0
    /\ is_active = FALSE
    /\ max_rounds = 0
    /\ turn = 0
    /\ out = <<>>
    /\ args = NoArgs
    /\ error = ""

NoResult == [op |-> "none", pos |-> 0, rn |-> 0]

(***************************************************************************)
(* A Players object used on its own, as the callers of player.py use it:   *)
(* cards are drawn by its players, hands are cleared, and the leaderboard  *)
(* is asked for.  res holds what a query returned until the caller drops   *)
(* it (NoResult), which it does before its next call.                      *)
(***************************************************************************)
\* The number of cards held by the players together.
RECURSIVE cards_held(_)
cards_held(ps) ==
    IF ps = <<>> THEN 0 ELSE Len(Head(ps).hand) + cards_held(Tail(ps))

\* players = Players(names): the object is made ("players"), or
\* InvalidPlayerError is raised and there is none ("invalid").
InitPlayers ==
    /\ \E names \in NameLists :
        /\ args = [NoArgs EXCEPT !.names = names]
        /\ players = players_init(names).players
        /\ error = players_init(names).error
        /\ pc = IF players_init(names).error = "" THEN "players" ELSE "invalid"
    /\ deck = <<>>
    /\ current_round = 0
    /\ is_active = FALSE
    /\ max_rounds = 0
    /\ turn = 0
    /\ out = <<>>
    /\ res = NoResult

\* players[i].draw_card(card)
draw_card(i, card) ==
    /\ pc = "players" /\ res = NoResult
    /\ cards_held(players) < MaxDraws
    /\ players' = [players EXCEPT ![i] = player_draw_card(@, card)]
    /\ res' = NoResult
    /\ UNCHANGED <<deck, current_round, is_active, max_rounds, pc, turn, out, args, error>>

\* players[i].clear_hand()
clear_hand(i) ==
    /\ pc = "players" /\ res = NoResult
    /\ players' = [players EXCEPT ![i] = player_clear_hand(@)]
    /\ res' = NoResult
    /\ UNCHANGED <<deck, current_round, is_active, max_rounds, pc, turn, out, args, error>>

\* players.reset(); the call returns None, which the caller drops.
reset ==
    /\ pc = "players" /\ res = NoResult
    /\ players' = players_reset(players)
    /\ res' = [op |-> "reset", pos |-> 0, rn |-> 0]
    /\ UNCHANGED <<deck, current_round, is_active, max_rounds, pc, turn, out, args, error>>

\* A leaderboard that sorts the list of the players itself.
players_sorted_in_place(ps, rn) ==
    [k \in 1..Len(ps) |-> ps[sorted_players(ps, rn)[k]]]

\* self._players after _get_leaderboard: sorted() makes a new list and
\* leaves the list of the players as it is.
players_after_query(ps, rn) == ps

\* players.first(rn), players.second(rn), players.third(rn)
ask_place(pos, rn) ==
    /\ pc = "players" /\ res = NoResult
    /\ res' = [op |-> "place", pos |-> pos, rn |-> rn,
               value |-> place_accessor(players, pos, rn)]
    /\ players' = players_after_query(players, rn)
    /\ UNCHANGED <<deck, current_round, is_active, max_rounds, pc, turn, out, args, error>>

\* str(players)
ask_str ==
    /\ pc = "players" /\ res = NoResult
    /\ res' = [op |-> "str", pos |-> 0, rn |-> 0, value |-> players_str(players)]
    /\ players' = players_after_query(players, 0)
    /\ UNCHANGED <<deck, current_round, is_active, max_rounds, pc, turn, out, args, error>>

\* The caller drops the value a query returned.
drop_result ==
    /\ pc = "players" /\ res # NoResult
    /\ res' = NoResult
    /\ UNCHANGED <<players, deck, current_round, is_active, max_rounds, pc, turn, out,
                   args, error>>

DrawCard == \E i \in 1..Len(players), card \in Cards : draw_card(i, card)
ClearHand == \E i \in 1..Len(players) : clear_hand(i)
Reset == reset
AskPlace == \E pos \in 1..3, rn \in RoundSelectors : ask_place(pos, rn)
AskStr == ask_str
DropResult == drop_result

NextPlayers == DrawCard \/ ClearHand \/ Reset \/ AskPlace \/ AskStr \/ DropResult

SpecPlayers == InitPlayers /\ [][NextPlayers]_vars

(***************************************************************************)
(* game.py: Game.  The caller constructs a Game and calls play(); play()   *)
(* is followed through its loops, pausing where the code waits for input.  *)
(***************************************************************************)
\* A display that shows every message twice.
display_message_twice(o, message) == Append(Append(o, message), message)

\* Game._display_message: the category and the keyword arguments shown.
display_message(o, message) == Append(o, message)

\* The checks of Game.__init__ with the round check off by one.
game_init_error_rounds(names, mr, messages) ==
    IF mr < 0 THEN "GameError"
    ELSE IF Len(names) = 0 THEN "GameError"
    ELSE IF ~messages THEN "GameError"
    ELSE players_init(names).error

\* The exception Game.__init__ raises, "" if none, in the order of the code:
\* max_rounds, the number of names, the message dictionary (messages is
\* FALSE when none is given and messages.conf cannot be opened), and then
\* Players(names).
game_init_error(names, mr, messages) ==
    IF mr < 1 THEN "GameError"
    ELSE IF Len(names) = 0 THEN "GameError"
    ELSE IF ~messages THEN "GameError"
    ELSE players_init(names).error

\* The decks Game.__init__ can end with: the Deck given when it is true
\* (Deck.__bool__: not empty), and otherwise a new Deck, shuffled.
game_init_decks(deck_argument) ==
    IF deck_argument.given /\ deck_argument.cards # <<>>
    THEN {deck_argument.cards}
    ELSE shuffle_outcomes(initiate_deck)

Init ==
    /\ NoGame
    /\ pc = "start"
    /\ res = NoResult

\* game = Game(names, deck, max_rounds, message)
game_init(names, deck_argument, mr, messages) ==
    /\ pc = "start"
    /\ args' = [names |-> names, deck |-> deck_argument, max_rounds |-> mr,
                messages |-> messages]
    /\ error' = game_init_error(names, mr, messages)
    /\ IF error' # ""
       THEN /\ pc' = "failed"
            /\ UNCHANGED <<players, deck, current_round, is_active, max_rounds>>
       ELSE /\ pc' = "ready"
            /\ deck' \in game_init_decks(deck_argument)
            /\ players' = players_init(names).players
            /\ current_round' = 1
            /\ is_active' = TRUE
            /\ max_rounds' = mr
    /\ UNCHANGED <<turn, out, res>>

\* game.play() is called, on a game just made or reset ("ready") or on a
\* game used before ("idle"): self._display_message("WELCOME")
play_welcome ==
    /\ pc \in {"ready", "idle"}
    /\ out' = display_message(out, [category |-> "WELCOME"])
    /\ pc' = "while"
    /\ UNCHANGED <<players, deck, current_round, is_active, max_rounds, turn, args,
                   error, res>>

\* A loop that goes on while rounds are left, whatever the flag says.
while_condition_rounds_left(active, cr, mr) == cr <= mr

\* while self._is_active
while_condition(active, cr, mr) == active

\* while self._is_active: ROUND START is displayed and _next_round begins.
play_round_start ==
    /\ pc = "while"
    /\ while_condition(is_active, current_round, max_rounds)
    /\ out' = display_message(out,
                [category |-> "ROUND START", current_round |-> current_round])
    /\ turn' = 1
    /\ pc' = "for"
    /\ UNCHANGED <<players, deck, current_round, is_active, max_rounds, args, error, res>>

\* An iterator that passes over every other player.
next_turn_skipping(t) == t + 2

\* The list iterator of "for player in self.players" moves to the next player.
next_turn(t) == t + 1

\* for player in self.players: TURN START is displayed and input() waits.
next_round_turn_start ==
    /\ pc = "for"
    /\ turn <= Len(players)
    /\ out' = display_message(out,
                [category |-> "TURN START", current_player_name |-> players[turn].name])
    /\ pc' = "input"
    /\ UNCHANGED <<players, deck, current_round, is_active, max_rounds, turn, args,
                   error, res>>

\* A membership test in the first place of the round that is played, the
\* round of the card just drawn.
pos_result_by_round(ps, t) ==
    \E j \in 1..Len(first(ps, Len(ps[t].hand)).players) :
        LET other == ps[first(ps, Len(ps[t].hand)).players[j]]
        IN ps[t].hand = other.hand /\ ps[t].name = other.name

\* A comparison with the one player the first place names, not with all
\* of its players.
pos_result_representative(ps, t) ==
    LET other == ps[first(ps, 0).player]
    IN ps[t].hand = other.hand /\ ps[t].name = other.name

\* player in self.players.first().players (list membership by Player.__eq__)
pos_result(ps, t) ==
    \E j \in 1..Len(first(ps, 0).players) :
        LET other == ps[first(ps, 0).players[j]]
        IN ps[t].hand = other.hand /\ ps[t].name = other.name

\* A recovery that shuffles the empty deck without making a new one.
recovery_decks_not_renewed(d) ==
    IF get_card(d).error = "" THEN {d} ELSE shuffle_outcomes(d)

\* The decks the card is taken from: the deck itself, or, when get_card
\* raised DeckEmptyError, the deck after new_deck() and shuffle().
recovery_decks(d) ==
    IF get_card(d).error = "" THEN {d} ELSE shuffle_outcomes(initiate_deck)

\* A TURN END that shows the score of the card in place of the total.
turn_end_message_card_score(ps, t, card) ==
    [category |-> IF pos_result(ps, t) THEN "TRUE TURN END" ELSE "FALSE TURN END",
     current_player_name |-> ps[t].name,
     current_card |-> card,
     current_player_score |-> card_score(card)]

\* The "{result} TURN END" message of the player who drew, ps being the
\* players after the draw.
turn_end_message(ps, t, card) ==
    [category |-> IF pos_result(ps, t) THEN "TRUE TURN END" ELSE "FALSE TURN END",
     current_player_name |-> ps[t].name,
     current_card |-> card,
     current_player_score |-> score(ps[t], 0)]

\* An EMPTY DECK message shown as soon as the last card is about to go.
empty_deck_shown_on_last_card(o, d) ==
    IF Len(d) > 1 THEN o ELSE display_message(o, [category |-> "EMPTY DECK"])

\* except DeckEmptyError: self._display_message("EMPTY DECK"), shown when
\* the get_card of the try raised.
empty_deck_shown(o, d) ==
    IF get_card(d).error = "" THEN o
    ELSE display_message(o, [category |-> "EMPTY DECK"])

\* input() returns: the card is taken from the deck (from a new shuffled
\* deck when the deck is empty), the player draws it, TURN END is displayed.
\* The second get_card is outside the try: its DeckEmptyError leaves play().
next_round_draw ==
    /\ pc = "input"
    /\ \E d \in recovery_decks(deck) :
        LET got == get_card(d)
            ps == [players EXCEPT ![turn] = player_draw_card(@, got.card)]
            o == empty_deck_shown(out, deck)
        IN IF got.error # ""
           THEN /\ deck' = d
                /\ out' = o
                /\ error' = got.error
                /\ pc' = "raised"
                /\ UNCHANGED <<players, turn>>
           ELSE /\ deck' = got.deck
                /\ players' = ps
                /\ out' = display_message(o, turn_end_message(ps, turn, got.card))
                /\ turn' = next_turn(turn)
                /\ pc' = "for"
                /\ UNCHANGED error
    /\ UNCHANGED <<current_round, is_active, max_rounds, args, res>>

\* A test that lets one round more be played.
ends_game_late(cr, mr) == cr > mr

\* A test that never ends the game.
ends_game_never(cr, mr) == FALSE

\* if self._current_round >= self._max_rounds
ends_game(cr, mr) == cr >= mr

\* A round counter that stays in the round that ends the game.
next_current_round_unless_last(cr, mr) == IF cr >= mr THEN cr ELSE cr + 1

\* A round counter that counts every round twice.
next_current_round_twice(cr, mr) == cr + 2

\* self._current_round += 1, in every round
next_current_round(cr, mr) == cr + 1

\* A selector that takes the cumulative scores for those of the round.
last_round_cumulative(cr) == 0

\* last_round = self._current_round - 1
last_round_of(cr) == cr - 1

\* The for loop is over: _next_round ends the game in the last round and
\* counts the round; play() displays who won the round just played.
play_round_end ==
    /\ pc = "for"
    /\ turn > Len(players)
    /\ is_active' = IF ends_game(current_round, max_rounds) THEN FALSE ELSE is_active
    /\ current_round' = next_current_round(current_round, max_rounds)
    /\ LET last_round == last_round_of(current_round')
       IN out' = IF first(players, last_round).tie
                 THEN display_message(out, [category |-> "ROUND END TIE"])
                 ELSE display_message(out,
                        [category |-> "ROUND END",
                         round_winner |-> first(players, last_round).name])
    /\ pc' = "while"
    /\ UNCHANGED <<players, deck, max_rounds, turn, args, error, res>>

\* A game over decided by the cards of the first round.
game_over_place_first_round(ps) == first(ps, 1)

\* self.players.first() after the while loop
game_over_place(ps) == first(ps, 0)

\* The while loop is over: the game over message and the leaderboard.
play_game_over ==
    /\ pc = "while"
    /\ ~while_condition(is_active, current_round, max_rounds)
    /\ LET o == IF game_over_place(players).tie
                THEN display_message(out, [category |-> "GAME OVER TIE"])
                ELSE display_message(out,
                        [category |-> "GAME OVER",
                         game_winner |-> game_over_place(players).name])
       IN out' = Append(o, [category |-> "print", text |-> players_str(players)])
    /\ pc' = "done"
    /\ UNCHANGED <<players, deck, current_round, is_active, max_rounds, turn, args,
                   error, res>>

GameInit ==
    \E names \in NameLists, deck_argument \in DeckArguments, mr \in 0..MaxRounds,
       messages \in BOOLEAN : game_init(names, deck_argument, mr, messages)
PlayWelcome == play_welcome
PlayRoundStart == play_round_start
NextRoundTurnStart == next_round_turn_start
NextRoundDraw == next_round_draw
PlayRoundEnd == play_round_end
PlayGameOver == play_game_over

Next ==
    \/ GameInit
    \/ PlayWelcome
    \/ PlayRoundStart
    \/ NextRoundTurnStart
    \/ NextRoundDraw
    \/ PlayRoundEnd
    \/ PlayGameOver

Spec == Init /\ [][Next]_vars

(***************************************************************************)
(* test_game.py: the game of test_basic_game_5, a deck built card by card  *)
(* for the three players of PLAYERS_2, and the games beside it: the same   *)
(* deck with the players in another order or with fewer rounds.            *)
(***************************************************************************)
\* max_rounds: int = 3
DefaultMaxRounds == 3

\* cards of test_basic_game_5, in the order of add_card: the last is the top.
ScenarioDeck ==
    <<[suit |-> 4, rank |-> 6], [suit |-> 1, rank |-> 8], [suit |-> 2, rank |-> 3],
      [suit |-> 4, rank |-> 9], [suit |-> 4, rank |-> 14], [suit |-> 1, rank |-> 13],
      [suit |-> 2, rank |-> 5], [suit |-> 2, rank |-> 3], [suit |-> 1, rank |-> 10]>>

\* PLAYERS_2 and its other orders.
ScenarioNameLists ==
    {<<"Berkelly", "Cez", "Tonto">>, <<"Berkelly", "Tonto", "Cez">>,
     <<"Cez", "Berkelly", "Tonto">>, <<"Cez", "Tonto", "Berkelly">>,
     <<"Tonto", "Berkelly", "Cez">>, <<"Tonto", "Cez", "Berkelly">>}

GameInitScenario ==
    \E names \in ScenarioNameLists, mr \in 1..DefaultMaxRounds :
        game_init(names, [given |-> TRUE, cards |-> ScenarioDeck], mr, TRUE)

NextScenario ==
    \/ GameInitScenario
    \/ PlayWelcome
    \/ PlayRoundStart
    \/ NextRoundTurnStart
    \/ NextRoundDraw
    \/ PlayRoundEnd
    \/ PlayGameOver

SpecScenario == Init /\ [][NextScenario]_vars

(***************************************************************************)
(* game.py: a Game used again.  When play() has returned the caller reads  *)
(* what was displayed (out starts again from empty) and goes on with       *)
(* end_game(), new_game() or play().                                       *)
(***************************************************************************)
\* The name lists and the decks of the games that are used again.
ReplayNameLists == {<<"Berkelly">>, <<"Berkelly", "Cez">>}

ReplayDeckArguments ==
    {[given |-> FALSE, cards |-> <<>>],
     [given |-> TRUE, cards |-> <<[suit |-> 1, rank |-> 13]>>]}

\* play() has returned: the caller takes the output displayed so far.
read_output ==
    /\ pc = "done"
    /\ out' = <<>>
    /\ pc' = "idle"
    /\ UNCHANGED <<players, deck, current_round, is_active, max_rounds, turn, args,
                   error, res>>

\* Game.end_game
end_game ==
    /\ pc \in {"ready", "idle"}
    /\ is_active' = FALSE
    /\ pc' = "idle"
    /\ UNCHANGED <<players, deck, current_round, max_rounds, turn, out, args, error, res>>

\* A new_game that shuffles the deck it has without making a new one.
new_game_decks_not_renewed(d) == shuffle_outcomes(d)

\* self._deck.new_deck(); self._deck.shuffle()
new_game_decks(d) == shuffle_outcomes(initiate_deck)

\* A new_game that leaves the players their hands.
new_game_players_kept(ps) == ps

\* self.players.reset()
new_game_players(ps) == players_reset(ps)

\* Game.new_game
new_game ==
    /\ pc \in {"ready", "idle"}
    /\ is_active' = TRUE
    /\ deck' \in new_game_decks(deck)
    /\ current_round' = 1
    /\ players' = new_game_players(players)
    /\ pc' = "ready"
    /\ UNCHANGED <<max_rounds, turn, out, args, error, res>>

GameInitReplay ==
    \E names \in ReplayNameLists, deck_argument \in ReplayDeckArguments,
       mr \in 1..MaxRounds : game_init(names, deck_argument, mr, TRUE)
ReadOutput == read_output
EndGame == end_game
NewGame == new_game

NextReplay ==
    \/ GameInitReplay
    \/ PlayWelcome
    \/ PlayRoundStart
    \/ NextRoundTurnStart
    \/ NextRoundDraw
    \/ PlayRoundEnd
    \/ PlayGameOver
    \/ ReadOutput
    \/ EndGame
    \/ NewGame

SpecReplay == Init /\ [][NextReplay]_vars

(***************************************************************************)
(* card.py: Card.__init__.  The labels are strings; a rank given as a      *)
(* number is looked up by str(rank).                                       *)
(***************************************************************************)
\* Card.ALL_RANKS: the names of Card.RANK, the first with the value 2.
ALL_RANKS ==
    <<"2", "3", "4", "5", "6", "7", "8", "9", "10", "Jack", "Queen", "King", "Ace">>

\* The names of Card.SUIT, the first with the value 1.
SuitNames == <<"Spades", "Diamonds", "Hearts", "Clubs">>

\* Names getattr finds on an IntEnum class that are no members of it:
\* attributes of the class, of its metaclass and of int.
EnumAttributes == {"mro", "__members__", "__doc__", "bit_length", "real"}

\* What getattr returns for a name of EnumAttributes: no member, no value.
NotAMember == 0

\* getattr(enum, label): the member of that name, or the attribute of the
\* class of that name, or AttributeError(label).
enum_getattr(names, start, label) ==
    IF \E k \in 1..Len(names) : names[k] = label
    THEN [found |-> TRUE,
          value |-> (CHOOSE k \in 1..Len(names) : names[k] = label) + start - 1]
    ELSE [found |-> label \in EnumAttributes, value |-> NotAMember]

\* Card.__init__: the rank is looked up first, then the suit; the handler
\* compares the text of the AttributeError with the suit first.
card_init(suit, rank) ==
    LET r == enum_getattr(ALL_RANKS, 2, rank)
        s == enum_getattr(SuitNames, 1, suit)
        e == IF ~r.found THEN rank ELSE suit
    IN IF r.found /\ s.found
       THEN [error |-> "", card |-> [suit |-> s.value, rank |-> r.value]]
       ELSE IF suit = e THEN [error |-> "InvalidCardSuitError", card |-> NoCard]
       ELSE IF rank = e THEN [error |-> "InvalidCardRankError", card |-> NoCard]
       ELSE [error |-> "", card |-> [suit |-> NotAMember, rank |-> r.value]]

\* The labels Card is called with: names of suits and ranks, names that
\* are neither, names of the other kind, attributes of the enum classes.
SuitLabels ==
    {"Spades", "Diamonds", "Hearts", "Clubs", "None", "King", "spades", "", "mro",
     "__members__"}

RankLabels ==
    {"2", "3", "4", "5", "6", "7", "8", "9", "10", "Jack", "Queen", "King", "Ace",
     "None", "Spades", "1", "mro"}

\* No card is asked for yet.
InitCard ==
    /\ NoGame
    /\ pc = "card"
    /\ res = NoResult

\* Card(suit, rank): the card, or the error raised.
new_card(suit, rank) ==
    /\ pc = "card"
    /\ res' = [op |-> "Card", pos |-> 0, rn |-> 0, suit |-> suit, rank |-> rank,
               error |-> card_init(suit, rank).error,
               card |-> card_init(suit, rank).card]
    /\ UNCHANGED <<players, deck, current_round, is_active, max_rounds, pc, turn, out,
                   args, error>>

NewCard == \E suit \in SuitLabels, rank \in RankLabels : new_card(suit, rank)

NextCard == NewCard

SpecCard == InitCard /\ [][NextCard]_vars

(***************************************************************************)
(* deck.py: a Deck used by itself.  res holds what the last call returned  *)
(* (for a call that returns None, that it was made) until the caller drops *)
(* it.                                                                     *)
(***************************************************************************)
\* The name of the suit of a card.
suit_name(card) == SuitNames[card.suit]

RECURSIVE cards_of_suit(_, _)
\* [deck for deck in self._deck if deck.suit.name == suit]
cards_of_suit(d, suit) ==
    IF d = <<>> THEN <<>>
    ELSE IF suit_name(Head(d)) = suit
         THEN <<Head(d)>> \o cards_of_suit(Tail(d), suit)
         ELSE cards_of_suit(Tail(d), suit)

\* An insertion that puts the higher ranks first.
insert_by_rank_descending(t, card) ==
    LET k == Cardinality({i \in 1..Len(t) : t[i].rank >= card.rank})
    IN SubSeq(t, 1, k) \o <<card>> \o SubSeq(t, k + 1, Len(t))

\* The place of a card in a list sorted so far: behind the cards that are
\* not higher (Card.__lt__ compares the ranks; sorted() is stable).
insert_by_rank(t, card) ==
    LET k == Cardinality({i \in 1..Len(t) : t[i].rank <= card.rank})
    IN SubSeq(t, 1, k) \o <<card>> \o SubSeq(t, k + 1, Len(t))

RECURSIVE sorted_cards(_)
\* sorted(cards)
sorted_cards(cards) ==
    IF cards = <<>> THEN <<>>
    ELSE insert_by_rank(sorted_cards(SubSeq(cards, 1, Len(cards) - 1)),
                        cards[Len(cards)])

RECURSIVE sort_cards(_, _)
\* Deck.sort_cards: for every suit of the order, its cards sorted, added
\* one by one to a new deck.
sort_cards(d, order) ==
    IF order = <<>> THEN <<>>
    ELSE sorted_cards(cards_of_suit(d, Head(order))) \o sort_cards(d, Tail(order))

\* The orders sort_cards is called with: SORT_ORDER of the tests and other
\* orders of the four suits, a list that leaves suits out, a list that
\* names a suit twice.
SortOrders ==
    {<<"Diamonds", "Spades", "Clubs", "Hearts">>,
     <<"Spades", "Diamonds", "Hearts", "Clubs">>,
     <<"Clubs", "Hearts", "Spades", "Diamonds">>,
     <<"Hearts", "Clubs", "Diamonds", "Spades">>,
     <<"Clubs", "Spades">>,
     <<"Clubs", "Clubs", "Hearts", "Diamonds", "Spades">>}

\* Deck(empty=...)
InitDeck ==
    /\ \E empty \in BOOLEAN : deck = IF empty THEN <<>> ELSE initiate_deck
    /\ players = <<>>
    /\ current_round = 0
    /\ is_active = FALSE
    /\ max_rounds = 0
    /\ pc = "deck"
    /\ turn = 0
    /\ out = <<>>
    /\ args = NoArgs
    /\ error = ""
    /\ res = NoResult

\* deck.add_card(card)
add_card(card) ==
    /\ pc = "deck" /\ res = NoResult
    /\ Len(deck) < MaxDeckLen
    /\ deck' = Append(deck, card)
    /\ res' = [op |-> "add_card", pos |-> 0, rn |-> 0, card |-> card]
    /\ UNCHANGED <<players, current_round, is_active, max_rounds, pc, turn, out, args, error>>

\* deck.get_card(): the card, or DeckEmptyError.
deck_get_card ==
    /\ pc = "deck" /\ res = NoResult
    /\ deck' = get_card(deck).deck
    /\ res' = [op |-> "get_card", pos |-> 0, rn |-> 0,
               error |-> get_card(deck).error, card |-> get_card(deck).card]
    /\ UNCHANGED <<players, current_round, is_active, max_rounds, pc, turn, out, args, error>>

\* deck.new_deck()
new_deck ==
    /\ pc = "deck" /\ res = NoResult
    /\ deck' = initiate_deck
    /\ res' = [op |-> "new_deck", pos |-> 0, rn |-> 0]
    /\ UNCHANGED <<players, current_round, is_active, max_rounds, pc, turn, out, args, error>>

\* deck.shuffle()
shuffle ==
    /\ pc = "deck" /\ res = NoResult
    /\ deck' \in shuffle_outcomes(deck)
    /\ res' = [op |-> "shuffle", pos |-> 0, rn |-> 0]
    /\ UNCHANGED <<players, current_round, is_active, max_rounds, pc, turn, out, args, error>>

\* deck.sort_cards(order): a new deck; self._deck is read only.
deck_sort_cards(order) ==
    /\ pc = "deck" /\ res = NoResult
    /\ res' = [op |-> "sort_cards", pos |-> 0, rn |-> 0, order |-> order,
               value |-> sort_cards(deck, order)]
    /\ UNCHANGED <<players, deck, current_round, is_active, max_rounds, pc, turn, out,
                   args, error>>

\* The caller drops what the call returned.
deck_drop_result ==
    /\ pc = "deck" /\ res # NoResult
    /\ res' = NoResult
    /\ UNCHANGED <<players, deck, current_round, is_active, max_rounds, pc, turn, out,
                   args, error>>

AddCard == \E card \in Cards : add_card(card)
GetCard == deck_get_card
NewDeck == new_deck
Shuffle == shuffle
SortCards == \E order \in SortOrders : deck_sort_cards(order)
DeckDropResult == deck_drop_result

NextDeck == AddCard \/ GetCard \/ NewDeck \/ Shuffle \/ SortCards \/ DeckDropResult

SpecDeck == InitDeck /\ [][NextDeck]_vars

(***************************************************************************)
(* Properties of the leaderboard and of the scores (SpecPlayers).          *)
(***************************************************************************)
\* The scores the players hold under a round selector, and how many there are.
ScoresHeld(ps, rn) == {score(ps[j], rn) : j \in 1..Len(ps)}

\* The rank of a score: one more than the number of distinct greater scores.
DenseRank(ps, rn, sc) == 1 + Cardinality({x \in ScoresHeld(ps, rn) : x > sc})

\* The set of the elements of a sequence.
Range(s) == {s[j] : j \in 1..Len(s)}

\* C1: for every round selector the keys of the leaderboard are 1..k in
\* order, k being the number of distinct scores; the place of key n carries
\* the number n, and a group's number is one more than the number of
\* distinct greater scores, however many players hold those scores.
C1_DensePlaces ==
    pc = "players" =>
    \A rn \in RoundSelectors :
        LET lb == get_leaderboard(players, rn)
        IN /\ Len(lb) = Cardinality(ScoresHeld(players, rn))
           /\ \A n \in 1..Len(lb) :
                /\ lb[n][1] = n
                /\ lb[n][2].place = n
                /\ \A j \in Range(lb[n][2].players) :
                     n = DenseRank(players, rn, score(players[j], rn))

\* C1 witness: second place was asked for and holds the number 2 behind a
\* first place shared by two players.
C1_Witness ==
    /\ pc = "players"
    /\ res.op = "place" /\ res.pos = 2
    /\ res.value.place = 2
    /\ Len(first(players, res.rn).players) = 2
    /\ Len(players) = 3

\* The lines of a string: the pieces between its newlines.
RECURSIVE SplitLines(_, _)
SplitLines(s, line) ==
    IF s = <<>> THEN <<line>>
    ELSE IF Head(s) = "\n" THEN <<line>> \o SplitLines(Tail(s), <<>>)
         ELSE SplitLines(Tail(s), Append(line, Head(s)))

LinesOf(s) == IF s = <<>> THEN <<>> ELSE SplitLines(s, <<>>)

\* The registration position of the player of a name.
IndexOfName(ps, name) == CHOOSE j \in 1..Len(ps) : ps[j].name = name

\* C2: within every place, for every round selector, the members are in
\* registration order, the names are the members' names in that order, the
\* representative is the earliest registered player holding the score; and
\* in the leaderboard string two lines of one place follow registration order.
C2_StableTies ==
    pc = "players" =>
    /\ \A rn \in RoundSelectors :
        LET lb == get_leaderboard(players, rn)
        IN \A n \in 1..Len(lb) :
            LET nt == lb[n][2]
            IN /\ \A a, b \in 1..Len(nt.players) : a < b => nt.players[a] < nt.players[b]
               /\ \A a, b \in 1..Len(nt.names) :
                    a < b => IndexOfName(players, nt.names[a]) < IndexOfName(players, nt.names[b])
               /\ \A j \in 1..Len(players) :
                    score(players[j], rn) = nt.score => nt.player <= j
               /\ score(players[nt.player], rn) = nt.score
    /\ res.op = "str" =>
        LET lines == LinesOf(res.value)
        IN \A a, b \in 1..Len(lines) :
            (a < b /\ lines[a][1] = lines[b][1]) =>
                IndexOfName(players, lines[a][3]) < IndexOfName(players, lines[b][3])

\* C2 witness: the string of a leaderboard with a tie was asked for, the
\* tied players being registered after a player of another place.
C2_Witness ==
    /\ pc = "players"
    /\ res.op = "str"
    /\ Len(players) = 3
    /\ second(players, 0).players = <<2, 3>>

\* C3: for every round selector the places partition the players: every
\* player is a member of exactly one place, the members of a place hold the
\* score of the place, scores strictly decrease as the number grows, and
\* place 1 holds exactly the players of the greatest score.
C3_Partition ==
    pc = "players" =>
    \A rn \in RoundSelectors :
        LET lb == get_leaderboard(players, rn)
        IN /\ \A j \in 1..Len(players) :
                Cardinality({<<n, a>> \in (1..Len(lb)) \X (1..Len(players)) :
                    a <= Len(lb[n][2].players) /\ lb[n][2].players[a] = j}) = 1
           /\ \A n \in 1..Len(lb) : \A j \in Range(lb[n][2].players) :
                score(players[j], rn) = lb[n][2].score
           /\ \A n, m \in 1..Len(lb) : n < m => lb[n][2].score > lb[m][2].score
           /\ Len(players) > 0 =>
                Range(first(players, rn).players) =
                    {j \in 1..Len(players) :
                        \A i \in 1..Len(players) :
                            score(players[i], rn) <= score(players[j], rn)}

\* C3 witness: three players in two places under a single round's scores.
C3_Witness ==
    /\ pc = "players"
    /\ Len(players) = 3
    /\ res.op = "place" /\ res.rn = 1 /\ res.pos = 2
    /\ Len(res.value.players) = 2
    /\ res.value.score > 0

\* C4: in every place of every leaderboard the tie flag is set exactly when
\* the place has more than one member, the representative is the first
\* member, the name is the representative's name, and the names are the
\* members' names in the members' order.
C4_PlaceFields ==
    pc = "players" =>
    \A rn \in RoundSelectors :
        LET lb == get_leaderboard(players, rn)
        IN \A n \in 1..Len(lb) :
            LET nt == lb[n][2]
            IN /\ nt.tie <=> (Len(nt.players) > 1)
               /\ Len(nt.players) >= 1
               /\ nt.player = nt.players[1]
               /\ nt.name = players[nt.players[1]].name
               /\ Len(nt.names) = Len(nt.players)
               /\ \A a \in 1..Len(nt.players) : nt.names[a] = players[nt.players[a]].name

\* C4 witness: a leaderboard with a tied place and a place of one player.
C4_Witness ==
    /\ pc = "players"
    /\ res.op = "place" /\ res.pos = 1
    /\ res.value.tie
    /\ ~second(players, res.rn).tie
    /\ second(players, res.rn).player # NoPlayer

\* C5: first, second and third always return: the place of that number when
\* there are that many distinct scores, and otherwise the empty place, with
\* no representative, no members, score 0 and no tie.
C5_EmptyPlace ==
    (pc = "players" /\ res.op = "place") =>
        IF res.pos <= Cardinality(ScoresHeld(players, res.rn))
        THEN /\ res.value.place = res.pos
             /\ res.value.players # <<>>
             /\ res.value.player \in 1..Len(players)
        ELSE /\ res.value.player = NoPlayer
             /\ res.value.players = <<>>
             /\ res.value.name = NoName
             /\ res.value.names = <<>>
             /\ res.value.score = 0
             /\ res.value.tie = FALSE

\* C5 witness: second place asked of players who all hold the same score.
C5_Witness ==
    /\ pc = "players"
    /\ res.op = "place" /\ res.pos = 2
    /\ Len(players) >= 2
    /\ res.value.players = <<>>
    /\ first(players, res.rn).score > 0

\* The position of a player's line: behind the players of greater score and
\* behind the earlier registered players of the same score.
LinePosition(ps, j) ==
    1 + Cardinality({i \in 1..Len(ps) :
            \/ score(ps[i], 0) > score(ps[j], 0)
            \/ score(ps[i], 0) = score(ps[j], 0) /\ i < j})

\* C6: the leaderboard string has one line for each player, the line
\* "<place>: <name> (<cumulative score>)", by ascending place and by
\* registration order within a place, joined by newlines with none at the
\* end; for no players it is the empty string.
C6_LeaderboardString ==
    (pc = "players" /\ res.op = "str") =>
        LET lines == LinesOf(res.value)
        IN /\ Len(lines) = Len(players)
           /\ (Len(players) = 0 => res.value = <<>>)
           /\ \A j \in 1..Len(players) :
                lines[LinePosition(players, j)] =
                    <<ToString(DenseRank(players, 0, score(players[j], 0))), ": ",
                      players[j].name, " (", ToString(score(players[j], 0)), ")">>

\* C6 witness: the string of three players, two of them tied, was asked for.
C6_Witness ==
    /\ pc = "players"
    /\ res.op = "str"
    /\ Len(players) = 3
    /\ Cardinality(ScoresHeld(players, 0)) = 2
    /\ Len(res.value) = 20

\* The sum of the round scores of the first n rounds.
RECURSIVE SumOfRounds(_, _)
SumOfRounds(player, n) ==
    IF n = 0 THEN 0 ELSE score(player, n) + SumOfRounds(player, n - 1)

\* C7: after any draws and clears, the cumulative score of every player is
\* the sum of its round scores over the rounds 1..(hand length).
C7_CumulativeIsSum ==
    pc = "players" =>
    \A j \in 1..Len(players) :
        score(players[j], 0) = SumOfRounds(players[j], Len(players[j].hand))

\* C7 witness: a player holds two cards of different scores.
C7_Witness ==
    /\ pc = "players"
    /\ \E j \in 1..Len(players) :
        /\ Len(players[j].hand) = 2
        /\ score(players[j], 1) # score(players[j], 2)

\* What C8 says of a state: score(r) is the score of the r-th card of the
\* hand, and 0 beyond the hand.
C8_RoundScores ==
    pc = "players" =>
    \A j \in 1..Len(players) : \A r \in RoundSelectors \ {0} :
        score(players[j], r) =
            IF r <= Len(players[j].hand)
            THEN players[j].hand[r].suit * players[j].hand[r].rank
            ELSE 0

\* What C8 says of a step: a draw puts the card behind the cards drawn
\* before, whose round scores stay; a clear leaves every score 0.
C8_Step ==
    pc = "players" =>
    \A j \in 1..Len(players) :
        /\ Len(players'[j].hand) > Len(players[j].hand) =>
            /\ Len(players'[j].hand) = Len(players[j].hand) + 1
            /\ \A r \in 1..Len(players[j].hand) :
                 score(players'[j], r) = score(players[j], r)
            /\ score(players'[j], Len(players'[j].hand)) =
                 score(players'[j], 0) - score(players[j], 0)
        /\ Len(players'[j].hand) < Len(players[j].hand) =>
            \A r \in RoundSelectors : score(players'[j], r) = 0

\* C8: for every player and r > 0, score(r) is the score of the r-th card
\* drawn, and 0 when fewer than r cards were drawn; after a clear every
\* score(r) and score(0) is 0.
C8_ScoreOfRound == []C8_RoundScores /\ [][C8_Step]_vars

\* C8 witness: a round selector beyond a hand of one card.
C8_Witness ==
    /\ pc = "players"
    /\ res.op = "place" /\ res.rn = 2 /\ res.pos = 1
    /\ \E j \in 1..Len(players) : Len(players[j].hand) = 1
    /\ \E j \in 1..Len(players) : Len(players[j].hand) = 2
    /\ ~res.value.tie

(***************************************************************************)
(* Properties of the Game constructor and of the rounds of play() (Spec).  *)
(***************************************************************************)
\* A name occurs twice in the list.
NameRepeated(names) ==
    \E a, b \in 1..Len(names) : a # b /\ names[a] = names[b]

\* A name is an attribute a Players object has before any name is set.
NameIsAttribute(names) ==
    \E a \in 1..Len(names) : names[a] \in PlayersAttributes

\* The constructor raised and left no game behind.
ConstructionFailed ==
    /\ pc = "failed"
    /\ error # ""
    /\ players = <<>> /\ deck = <<>> /\ ~is_active /\ current_round = 0

\* The constructor returned a game, active and in round 1.
ConstructionSucceeded ==
    /\ pc = "ready"
    /\ error = ""
    /\ is_active /\ current_round = 1
    /\ max_rounds = args.max_rounds
    /\ Len(players) = Len(args.names)
    /\ \A j \in 1..Len(players) : players[j] = [name |-> args.names[j], hand |-> <<>>]

\* C9 as claimed: the constructor fails when the name list is empty, when
\* max_rounds is less than 1 and when a name is repeated, and succeeds, with
\* the game active in round 1, in every other case (stated here of the
\* calls that have a message dictionary, which the claim takes for granted).
C9_AsClaimed ==
    (pc \in {"failed", "ready"} /\ args.messages) =>
        IF \/ Len(args.names) = 0
           \/ args.max_rounds < 1
           \/ NameRepeated(args.names)
        THEN ConstructionFailed
        ELSE ConstructionSucceeded

\* C9 amended: the constructor fails when the name list is empty, when
\* max_rounds is less than 1, when there is no message dictionary (none
\* given and the messages file cannot be opened), and when a name is
\* repeated or is an attribute the set of players already has; in every
\* other case it succeeds, with the game active in round 1.
C9_Construction ==
    pc \in {"failed", "ready"} =>
        IF \/ Len(args.names) = 0
           \/ args.max_rounds < 1
           \/ ~args.messages
           \/ NameRepeated(args.names)
           \/ NameIsAttribute(args.names)
        THEN ConstructionFailed
        ELSE ConstructionSucceeded

\* C9 witness: the constructor failed on a name that is not repeated.
C9_Witness ==
    /\ pc = "failed"
    /\ args.names = <<"first">>
    /\ args.max_rounds >= 1
    /\ args.messages
    /\ error = "InvalidPlayerError"

\* The messages of the turns of a round.
IsTurnMessage(m) ==
    m.category \in {"TURN START", "TRUE TURN END", "FALSE TURN END"}

IsTurnEnd(m) == m.category \in {"TRUE TURN END", "FALSE TURN END"}

\* The message that closes the round opened at position a of the output,
\* or the position behind the output when the round is still played.
RoundClose(o, a) ==
    IF \E b \in (a + 1)..Len(o) : o[b].category \in {"ROUND END", "ROUND END TIE"}
    THEN CHOOSE b \in (a + 1)..Len(o) :
            /\ o[b].category \in {"ROUND END", "ROUND END TIE"}
            /\ \A c \in (a + 1)..(b - 1) : o[c].category \notin {"ROUND END", "ROUND END TIE"}
    ELSE Len(o) + 1

\* The turns of a whole round: for every player in registration order a
\* TURN START and a TURN END, as <<category, name>> pairs.
TurnsOfRound(ps) ==
    [k \in 1..(2 * Len(ps)) |->
        IF k % 2 = 1 THEN <<"start", ps[(k + 1) \div 2].name>>
        ELSE <<"end", ps[k \div 2].name>>]

\* The turns displayed, as <<category, name>> pairs.
TurnsShown(ms) ==
    [k \in 1..Len(ms) |->
        <<IF ms[k].category = "TURN START" THEN "start" ELSE "end",
          ms[k].current_player_name>>]

\* The cards of the TURN END messages of a player, in order.
RECURSIVE CardsShown(_, _)
CardsShown(o, name) ==
    IF o = <<>> THEN <<>>
    ELSE IF IsTurnEnd(Head(o)) /\ Head(o).current_player_name = name
         THEN <<Head(o).current_card>> \o CardsShown(Tail(o), name)
         ELSE CardsShown(Tail(o), name)

\* C10: in every round of play() the turns are those of the players in
\* registration order, one TURN START and one TURN END for each (all of
\* them when the round is over, the first of them while it is played), and
\* every TURN END puts its card, and no other, at the end of the hand of
\* its player.
C10_OneTurnEach ==
    pc \in {"while", "for", "input", "done"} =>
    /\ \A a \in 1..Len(out) :
        out[a].category = "ROUND START" =>
            LET b == RoundClose(out, a)
                shown == TurnsShown(SelectSeq(SubSeq(out, a + 1, b - 1), IsTurnMessage))
                whole == TurnsOfRound(players)
            IN /\ Len(shown) <= Len(whole)
               /\ shown = SubSeq(whole, 1, Len(shown))
               /\ b <= Len(out) => shown = whole
    /\ \A j \in 1..Len(players) : players[j].hand = CardsShown(out, players[j].name)

\* C10 witness: two rounds of three players were played to the end.
C10_Witness ==
    /\ pc = "done"
    /\ Len(players) = 3
    /\ \A j \in 1..3 : Len(players[j].hand) = 2

(***************************************************************************)
(* C11: the rounds of play()                                               *)
(***************************************************************************)
IsRoundStart(m) == m.category = "ROUND START"

\* The round numbers of the ROUND START messages displayed, in order.
RoundNumbersShown(o) ==
    LET starts == SelectSeq(o, IsRoundStart)
    IN [k \in 1..Len(starts) |-> starts[k].current_round]

\* The numbers 1, 2, ..., n in that order.
UpTo(n) == [k \in 1..n |-> k]

\* A game made or reset is active and at round 1; while a round is played
\* the rounds displayed are 1, ..., current_round, none beyond max_rounds;
\* when play() has returned the game is inactive and the rounds displayed,
\* if there are any, are 1, ..., max_rounds.
C11_Rounds ==
    /\ pc = "ready" => is_active /\ current_round = 1 /\ out = <<>>
    /\ pc \in {"for", "input"} =>
        /\ is_active
        /\ current_round <= max_rounds
        /\ RoundNumbersShown(out) = UpTo(current_round)
    /\ pc = "done" =>
        /\ ~is_active
        /\ RoundNumbersShown(out) \in {<<>>, UpTo(max_rounds)}

\* play() called on an active game displays WELCOME and then ROUND START
\* with the current round (so that some round is displayed); new_game()
\* makes the game active again.
C11_Step ==
    /\ (pc \in {"ready", "idle"} /\ pc' = "while") =>
            out' = <<[category |-> "WELCOME"]>> /\ is_active' = is_active
    /\ (pc = "while" /\ is_active) =>
            /\ pc' = "for"
            /\ out' = Append(out, [category |-> "ROUND START",
                                   current_round |-> current_round])
    /\ (pc = "idle" /\ pc' = "ready") => ~is_active /\ is_active'

\* C11: play() on an active game at round 1 plays exactly max_rounds
\* rounds: it displays ROUND START with the round numbers 1, 2, ...,
\* max_rounds in that order, each once, and the game is inactive when
\* play() returns (active after construction, inactive after play(),
\* active again after new_game()).
C11_PlaysMaxRounds == []C11_Rounds /\ [][C11_Step]_vars

\* C11 witness: a game of two rounds was played, reset by new_game() and
\* played again: its deck of DeckSize cards has been renewed since.
C11_Witness ==
    /\ pc = "done"
    /\ max_rounds = 2
    /\ Len(players) = 1
    /\ RoundNumbersShown(out) = <<1, 2>>
    /\ args.deck.given
    /\ Len(deck) = DeckSize - 2

(***************************************************************************)
(* C12: the end of a round                                                 *)
(***************************************************************************)
IsRoundEnd(m) == m.category \in {"ROUND END", "ROUND END TIE"}

\* The players whose card of round r scores highest among the cards of
\* round r.
RoundLeaders(ps, r) ==
    {j \in 1..Len(ps) :
        \A i \in 1..Len(ps) : card_score(ps[j].hand[r]) >= card_score(ps[i].hand[r])}

\* C12: the message that ends round r of play(), the last round included,
\* is decided by the cards of round r alone: it is ROUND END TIE exactly
\* when several players hold the highest score of round r, and otherwise
\* ROUND END with the name of the one player who holds it.
C12_RoundEnd ==
    pc \in {"while", "for", "input", "done"} =>
        LET ends == SelectSeq(out, IsRoundEnd)
        IN \A r \in 1..Len(ends) :
            /\ \A j \in 1..Len(players) : Len(players[j].hand) >= r
            /\ ends[r].category = "ROUND END TIE"
                    <=> Cardinality(RoundLeaders(players, r)) > 1
            /\ ends[r].category = "ROUND END" =>
                    \E j \in RoundLeaders(players, r) :
                        ends[r].round_winner = players[j].name

\* C12 witness: the last of two rounds was won by a player who does not
\* win the game.
C12_Witness ==
    /\ pc = "done"
    /\ LET ends == SelectSeq(out, IsRoundEnd)
       IN /\ Len(ends) = 2
          /\ ends[2].category = "ROUND END"
          /\ \E a \in 1..Len(out) :
                /\ out[a].category = "GAME OVER"
                /\ out[a].game_winner # ends[2].round_winner

(***************************************************************************)
(* C13: the end of the game                                                *)
(***************************************************************************)
IsGameOver(m) == m.category \in {"GAME OVER", "GAME OVER TIE"}

IsPrint(m) == m.category = "print"

\* The sum of the scores of the first n cards of a hand.
RECURSIVE TotalOf(_, _)
TotalOf(hand, n) ==
    IF n = 0 THEN 0 ELSE card_score(hand[n]) + TotalOf(hand, n - 1)

\* The players whose cards score highest in total.
GameLeaders(ps) ==
    {j \in 1..Len(ps) :
        \A i \in 1..Len(ps) :
            TotalOf(ps[j].hand, Len(ps[j].hand)) >= TotalOf(ps[i].hand, Len(ps[i].hand))}

\* C13: when the game has become inactive play() displays one game over
\* message, decided by the cumulative scores (GAME OVER TIE exactly when
\* several players hold the highest cumulative score, otherwise GAME OVER
\* with the name of the one who holds it), then prints the leaderboard of
\* the cumulative scores, and nothing after it; before that no game over
\* message and no leaderboard is displayed.
C13_GameOver ==
    /\ pc \in {"ready", "while", "for", "input"} =>
            SelectSeq(out, IsGameOver) = <<>> /\ SelectSeq(out, IsPrint) = <<>>
    /\ pc = "done" =>
        LET n == Len(out)
        IN /\ ~is_active
           /\ n >= 2
           /\ Len(SelectSeq(out, IsGameOver)) = 1
           /\ Len(SelectSeq(out, IsPrint)) = 1
           /\ IsGameOver(out[n - 1])
           /\ out[n - 1].category = "GAME OVER TIE"
                    <=> Cardinality(GameLeaders(players)) > 1
           /\ out[n - 1].category = "GAME OVER" =>
                    \E j \in GameLeaders(players) :
                        out[n - 1].game_winner = players[j].name
           /\ out[n] = [category |-> "print", text |-> players_str(players)]

\* C13 witness: a game of two rounds is over and won by a player who did
\* not win the first round.
C13_Witness ==
    /\ pc = "done"
    /\ out[Len(out) - 1].category = "GAME OVER"
    /\ LET ends == SelectSeq(out, IsRoundEnd)
       IN /\ Len(ends) = 2
          /\ ends[1].category = "ROUND END"
          /\ ends[1].round_winner # out[Len(out) - 1].game_winner

(***************************************************************************)
(* C14, C15: TRUE TURN END and FALSE TURN END                              *)
(***************************************************************************)
\* A turn has just ended: the last message is the TURN END of the player
\* before the one whose turn is next.
TurnJustEnded == pc = "for" /\ turn > 1

LastShown == out[Len(out)]

\* The score of the card of round r, 0 for a player who has not drawn in
\* round r.
RoundScoreOrZero(player, r) ==
    IF Len(player.hand) >= r THEN card_score(player.hand[r]) ELSE 0

\* The players who hold the highest score of round r, those who have not
\* drawn in round r counting 0.
RoundLeadersSoFar(ps, r) ==
    {j \in 1..Len(ps) :
        \A i \in 1..Len(ps) : RoundScoreOrZero(ps[j], r) >= RoundScoreOrZero(ps[i], r)}

\* C14 as stated: TRUE TURN END is displayed exactly when the player who
\* drew is in the first place of the scores of the round that is played.
C14_AsClaimed ==
    TurnJustEnded =>
        /\ IsTurnEnd(LastShown)
        /\ LastShown.category = "TRUE TURN END"
                <=> (turn - 1) \in RoundLeadersSoFar(players, current_round)

\* C14: at the end of each turn TRUE TURN END is displayed exactly when the
\* player who drew is in the first place of the leaderboard of the
\* cumulative scores (round 0), and FALSE TURN END otherwise; in round 1,
\* and there only by what the hands hold, that is the first place of the
\* scores of the round that is played.
C14_TurnEndPlace ==
    TurnJustEnded =>
        /\ IsTurnEnd(LastShown)
        /\ LastShown.category = "TRUE TURN END"
                <=> (turn - 1) \in Range(first(players, 0).players)
        /\ current_round = 1 =>
                (LastShown.category = "TRUE TURN END"
                    <=> (turn - 1) \in RoundLeadersSoFar(players, current_round))

\* C14 witness: in round 2 the player who drew holds the highest score of
\* the round and not the highest cumulative score, and FALSE TURN END is
\* displayed.
C14_Witness ==
    /\ TurnJustEnded
    /\ current_round = 2
    /\ LastShown.category = "FALSE TURN END"
    /\ (turn - 1) \in RoundLeadersSoFar(players, current_round)
    /\ (turn - 1) \notin Range(first(players, 0).players)

\* C15: at the end of each turn TRUE TURN END is displayed exactly when,
\* after the draw, the cumulative score of the player who drew is the
\* highest cumulative score of all players, and FALSE TURN END otherwise.
C15_TurnEndCumulative ==
    TurnJustEnded =>
        /\ IsTurnEnd(LastShown)
        /\ LastShown.category = "TRUE TURN END" <=> (turn - 1) \in GameLeaders(players)
        /\ LastShown.category = "FALSE TURN END" <=> (turn - 1) \notin GameLeaders(players)

\* C15 witness: in round 2 the player who drew shares the highest
\* cumulative score with a player who is ahead in registration order, and
\* TRUE TURN END is displayed.
C15_Witness ==
    /\ TurnJustEnded
    /\ current_round = 2
    /\ LastShown.category = "TRUE TURN END"
    /\ \E i \in 1..(turn - 2) : i \in GameLeaders(players)

(***************************************************************************)
(* C16: what a TURN END carries                                            *)
(***************************************************************************)
\* The step of a draw: the message displayed last is a TURN END with the
\* name of the player whose turn it is, the card taken from the top of the
\* deck (of the new deck when the deck was empty), which is the card put
\* at the end of the hand, and the cumulative score of the hand after the
\* draw, the score before the draw plus the score of the card.  No other
\* step displays a TURN END.
C16_Step ==
    /\ (pc = "input" /\ pc' = "for") =>
        LET m == out'[Len(out')]
            before == TotalOf(players[turn].hand, Len(players[turn].hand))
            after == TotalOf(players'[turn].hand, Len(players'[turn].hand))
        IN /\ IsTurnEnd(m)
           /\ m.current_player_name = players[turn].name
           /\ players'[turn].hand = Append(players[turn].hand, m.current_card)
           /\ deck # <<>> => m.current_card = deck[Len(deck)]
           /\ deck # <<>> => deck' = SubSeq(deck, 1, Len(deck) - 1)
           /\ deck = <<>> => m.current_card \in Range(initiate_deck)
           /\ m.current_player_score = after
           /\ m.current_player_score = before + card_score(m.current_card)
    /\ (Len(out') > Len(out) /\ IsTurnEnd(out'[Len(out')])) => pc = "input"

\* C16: every TURN END, TRUE or FALSE, carries the name of the player who
\* just drew, the card drawn in that turn, and the cumulative score of the
\* player after the draw, which is the cumulative score before the draw
\* plus the score of the card drawn.
C16_TurnEndCarries == [][C16_Step]_vars

\* C16 witness: a TURN END of round 2, whose score is more than the score
\* of the card it carries.
C16_Witness ==
    /\ TurnJustEnded
    /\ current_round = 2
    /\ LastShown.current_player_name = players[turn - 1].name
    /\ LastShown.current_player_score > card_score(LastShown.current_card)

(***************************************************************************)
(* C17: the empty deck                                                     *)
(***************************************************************************)
\* How often the card c is in the sequence s.
Count(s, c) == Cardinality({k \in 1..Len(s) : s[k] = c})

\* The sequences a and b hold the same cards, each as often.
SameCards(a, b) ==
    /\ Len(a) = Len(b)
    /\ \A c \in Range(a) \cup Range(b) : Count(a, c) = Count(b, c)

\* A draw that finds the deck empty displays EMPTY DECK once and then the
\* TURN END; the card drawn and the deck left are together the cards of a
\* whole deck; the player has one card more, the card of the TURN END; the
\* turn is over as any other.  A draw from a deck that holds a card
\* displays no EMPTY DECK.
C17_Step ==
    (pc = "input") =>
        /\ pc' = "for"
        /\ error' = error
        /\ turn' = turn + 1
        /\ Len(players'[turn].hand) = Len(players[turn].hand) + 1
        /\ \A j \in 1..Len(players) : j # turn => players'[j] = players[j]
        /\ deck = <<>> =>
            /\ Len(out') = Len(out) + 2
            /\ SubSeq(out', 1, Len(out)) = out
            /\ out'[Len(out) + 1] = [category |-> "EMPTY DECK"]
            /\ IsTurnEnd(out'[Len(out) + 2])
            /\ SameCards(Append(deck', out'[Len(out) + 2].current_card), initiate_deck)
            /\ players'[turn].hand =
                    Append(players[turn].hand, out'[Len(out) + 2].current_card)
        /\ deck # <<>> =>
            /\ Len(out') = Len(out) + 1
            /\ IsTurnEnd(out'[Len(out')])

\* C17: whenever the draw of a turn finds the deck empty there is one
\* recovery (EMPTY DECK is displayed, the deck is made anew with all its
\* cards and shuffled, the card is drawn again) and the second draw
\* succeeds: DeckEmptyError never leaves play(), and the turn ends as any
\* other with one card more in the hand of the player.
C17_EmptyDeck == [](pc # "raised" /\ error # "DeckEmptyError") /\ [][C17_Step]_vars

\* C17 witness: a turn has ended after a recovery: EMPTY DECK is displayed
\* before its TURN END and the deck lacks one card.
C17_Witness ==
    /\ TurnJustEnded
    /\ Len(out) >= 2
    /\ out[Len(out) - 1].category = "EMPTY DECK"
    /\ IsTurnEnd(LastShown)
    /\ Len(deck) = DeckSize - 1
    /\ players[turn - 1].hand # <<>>
    /\ players[turn - 1].hand[Len(players[turn - 1].hand)] = LastShown.current_card

(***************************************************************************)
(* C18: the round counter                                                  *)
(***************************************************************************)
\* The step that follows the last turn of a round.
RoundIsOver == pc = "for" /\ turn > Len(players)

\* C18 as stated: the round that ends the game leaves the round counter as
\* it is, the other rounds count one up, and the counter is max_rounds
\* when play() has returned.
C18_AsClaimed ==
    /\ [](pc = "done" => current_round = max_rounds)
    /\ [][RoundIsOver =>
            IF current_round >= max_rounds
            THEN ~is_active' /\ current_round' = current_round
            ELSE is_active' = is_active /\ current_round' = current_round + 1]_vars

\* C18: after the last turn of a round the game is made inactive if the
\* round number is max_rounds or more, and is left active otherwise; the
\* round counter is one more after every round, the round that ends the
\* game included, so that it is max_rounds + 1 when play() has returned.
C18_RoundCounter ==
    /\ [](pc = "done" => ~is_active /\ current_round = max_rounds + 1)
    /\ [][RoundIsOver =>
            /\ is_active' = (is_active /\ current_round < max_rounds)
            /\ current_round' = current_round + 1]_vars

\* C18 witness: the round that ends a game of two rounds is over: the game
\* is inactive and the counter is 3.
C18_Witness ==
    /\ pc = "while"
    /\ ~is_active
    /\ max_rounds = 2
    /\ current_round = 3
    /\ IsRoundEnd(LastShown)

(***************************************************************************)
(* C19, C20: new_game()                                                    *)
(***************************************************************************)
\* The step of a call of new_game().
NewGameStep == pc \in {"ready", "idle"} /\ pc' = "ready"

\* The players ps are the players qs with empty hands.
SameMembers(ps, qs) ==
    /\ Len(ps) = Len(qs)
    /\ \A j \in 1..Len(ps) : ps[j].name = qs[j].name /\ ps[j].hand = <<>>

\* The cumulative scores of the TURN END messages of a player, in order.
RECURSIVE ScoresShown(_, _)
ScoresShown(o, name) ==
    IF o = <<>> THEN <<>>
    ELSE IF IsTurnEnd(Head(o)) /\ Head(o).current_player_name = name
         THEN <<Head(o).current_player_score>> \o ScoresShown(Tail(o), name)
         ELSE ScoresShown(Tail(o), name)

\* A play() that has displayed rounds has displayed the rounds 1, ...,
\* max_rounds, and for every player the cards of the hand, one for each
\* round, with the scores that add up from 0.
C19_PlayedFromZero ==
    (pc = "done" /\ RoundNumbersShown(out) # <<>>) =>
        /\ RoundNumbersShown(out) = UpTo(max_rounds)
        /\ \A j \in 1..Len(players) :
            /\ Len(players[j].hand) = max_rounds
            /\ CardsShown(out, players[j].name) = players[j].hand
            /\ ScoresShown(out, players[j].name) =
                    [k \in 1..max_rounds |-> TotalOf(players[j].hand, k)]

\* C19: new_game() called when a game has ended makes the game active,
\* sets the round counter to 1, empties every hand and keeps the players
\* and their order, and makes the deck a permutation of all the cards of a
\* deck, also when the game was made with a deck of its own; the play()
\* that follows runs max_rounds rounds from scores of 0.
C19_NewGame ==
    /\ [][(NewGameStep /\ ~is_active) =>
            /\ is_active'
            /\ current_round' = 1
            /\ SameMembers(players', players)
            /\ SameCards(deck', initiate_deck)
            /\ max_rounds' = max_rounds]_vars
    /\ []C19_PlayedFromZero

\* C19 witness: a game made with a deck of its own was played to the end
\* and new_game() was called.
C19_Witness ==
    /\ pc = "ready"
    /\ turn > Len(players)
    /\ args.deck.given
    /\ Len(players) = 2
    /\ SameCards(deck, initiate_deck)
    /\ \A j \in 1..Len(players) : players[j].hand = <<>>

\* The state new_game() leaves: active, round 1, empty hands, a whole deck.
Fresh(active, cr, ps, d) ==
    /\ active
    /\ cr = 1
    /\ \A j \in 1..Len(ps) : ps[j].hand = <<>>
    /\ SameCards(d, initiate_deck)

\* C20: new_game() is idempotent: whether or not a game has ended it
\* leaves the game active, at round 1, with empty hands, the same players
\* in the same order and a deck that is a permutation of all the cards of
\* a deck; called on the state it has left, it leaves that state, the
\* order of the deck apart.
C20_Idempotent ==
    [][NewGameStep =>
        /\ Fresh(is_active', current_round', players', deck')
        /\ SameMembers(players', players)
        /\ Fresh(is_active, current_round, players, deck) =>
            /\ is_active' = is_active
            /\ current_round' = current_round
            /\ players' = players
            /\ SameCards(deck', deck)
            /\ max_rounds' = max_rounds]_vars

\* C20 witness: new_game() was called on a game that has not been played:
\* the game was made with a deck of its own and holds a whole deck.
C20_Witness ==
    /\ pc = "ready"
    /\ turn = 0
    /\ args.deck.given
    /\ Fresh(is_active, current_round, players, deck)

(***************************************************************************)
(* C21: Players.reset                                                      *)
(***************************************************************************)
\* C21: reset(), after any draws, leaves every player with an empty hand,
\* so that the cumulative score and the score of every round is 0, and the
\* players are the same, with the same names, in the same order.
C21_Reset ==
    [][reset =>
        /\ Len(players') = Len(players)
        /\ \A j \in 1..Len(players) :
            /\ players'[j].name = players[j].name
            /\ players'[j].hand = <<>>
            /\ \A r \in RoundSelectors : score(players'[j], r) = 0]_vars

\* C21 witness: reset() has returned for three players.
C21_Witness ==
    /\ pc = "players"
    /\ res.op = "reset"
    /\ Len(players) = 3
    /\ \A j \in 1..3 : players[j].hand = <<>>

(***************************************************************************)
(* C24: Players.__init__                                                   *)
(***************************************************************************)
\* C24: Players(names) raises InvalidPlayerError when a name is repeated
\* and also when a name is an attribute the object has already (first, for
\* one); no Players object is made then.  Any other list makes the players
\* of its names.
C24_InvalidPlayer ==
    /\ pc \in {"players", "invalid"}
    /\ pc = "invalid" <=> (NameRepeated(args.names) \/ NameIsAttribute(args.names))
    /\ pc = "invalid" => error = "InvalidPlayerError" /\ players = <<>>
    /\ pc = "players" => error = ""
    /\ (pc = "players" /\ res = NoResult /\ cards_held(players) = 0) =>
            players = [j \in 1..Len(args.names) |-> [name |-> args.names[j], hand |-> <<>>]]

\* C24 witness: Players(["first"]) has raised InvalidPlayerError; no name
\* of the list is repeated.
C24_Witness ==
    /\ pc = "invalid"
    /\ error = "InvalidPlayerError"
    /\ NameIsAttribute(args.names)
    /\ ~NameRepeated(args.names)
    /\ Len(args.names) = 1

(***************************************************************************)
(* C25: the queries change nothing                                         *)
(***************************************************************************)
\* The step of a query: first, second, third or str.
QueryStep == pc = "players" /\ res = NoResult /\ res'.op \in {"place", "str"}

\* C25: first, second, third (for any round) and the leaderboard string
\* change nothing: the hands, the order of the players and the deck are
\* after the query what they were before, and what the query returns is
\* taken from the hands as they are when it is called: the place holds
\* the players whose score is at that position among the scores held now.
C25_QueriesReadOnly ==
    [][QueryStep =>
        /\ players' = players
        /\ deck' = deck
        /\ res'.op = "place" =>
            /\ Range(res'.value.players) =
                    {j \in 1..Len(players) :
                        DenseRank(players, res'.rn, score(players[j], res'.rn)) = res'.pos}
            /\ \A k \in 1..Len(res'.value.players) :
                    res'.value.score = score(players[res'.value.players[k]], res'.rn)
        /\ res'.op = "str" => res'.value = players_str(players)]_vars

\* C25 witness: a query for the second place of the cumulative scores
\* made when every card allowed is drawn, which names a player.
C25_Witness ==
    /\ pc = "players"
    /\ res.op = "place" /\ res.pos = 2 /\ res.rn = 0
    /\ cards_held(players) = MaxDraws
    /\ res.value.players # <<>>
    /\ res.value.score > 0

(***************************************************************************)
(* C22: the deck given to Game                                             *)
(***************************************************************************)
\* C22 as stated: a deck given to Game(...), of any size, a deck of no
\* cards included, is the deck of the game as it was given, so that the
\* first card drawn in play() is its top card (and EMPTY DECK comes before
\* the first TURN END when it has no card); a new whole deck is made and
\* shuffled only when no deck is given.
C22_AsClaimed ==
    /\ (pc = "ready" /\ args.deck.given) => deck = args.deck.cards
    /\ (pc = "ready" /\ ~args.deck.given) => SameCards(deck, initiate_deck)
    /\ (pc = "for" /\ current_round = 1 /\ turn = 2 /\ args.deck.given) =>
            IF args.deck.cards = <<>>
            THEN out[Len(out) - 1].category = "EMPTY DECK"
            ELSE /\ LastShown.current_card = args.deck.cards[Len(args.deck.cards)]
                 /\ out[Len(out) - 1].category # "EMPTY DECK"

(***************************************************************************)
(* C23: the game of test_basic_game_5                                      *)
(***************************************************************************)
\* C23: with the players Berkelly, Cez, Tonto in that order, 3 rounds and
\* the deck of which Spades-10, Diamonds-3, Diamonds-5, Spades-King,
\* Clubs-Ace, Clubs-9, Diamonds-3, Spades-8, Clubs-6 are drawn in that
\* order, after round 3 Cez and Tonto hold 70 points each and Berkelly 29,
\* the game over message is GAME OVER TIE, and the leaderboard printed is
\* "1: Cez (70)", "1: Tonto (70)", "2: Berkelly (29)", in that order.
C23_Scenario ==
    (/\ pc = "done"
     /\ args.names = <<"Berkelly", "Cez", "Tonto">>
     /\ args.max_rounds = 3) =>
        /\ Len(ScenarioDeck) = 9 /\ deck = <<>>
        /\ players[1].hand = <<[suit |-> 1, rank |-> 10], [suit |-> 1, rank |-> 13],
                               [suit |-> 2, rank |-> 3]>>
        /\ players[2].hand = <<[suit |-> 2, rank |-> 3], [suit |-> 4, rank |-> 14],
                               [suit |-> 1, rank |-> 8]>>
        /\ players[3].hand = <<[suit |-> 2, rank |-> 5], [suit |-> 4, rank |-> 9],
                               [suit |-> 4, rank |-> 6]>>
        /\ <<score(players[1], 0), score(players[2], 0), score(players[3], 0)>>
                = <<29, 70, 70>>
        /\ out[Len(out) - 1] = [category |-> "GAME OVER TIE"]
        /\ LinesOf(out[Len(out)].text) =
                <<<<"1", ": ", "Cez", " (", "70", ")">>,
                  <<"1", ": ", "Tonto", " (", "70", ")">>,
                  <<"2", ": ", "Berkelly", " (", "29", ")">>>>

\* C23 witness: that game is over.
C23_Witness ==
    /\ pc = "done"
    /\ args.names = <<"Berkelly", "Cez", "Tonto">>
    /\ args.max_rounds = 3
    /\ Len(SelectSeq(out, IsRoundEnd)) = 3
    /\ IsPrint(out[Len(out)])

(***************************************************************************)
(* C26: add_card and get_card                                              *)
(***************************************************************************)
\* The step of a call made on the deck.
DeckCall(op) == pc = "deck" /\ res = NoResult /\ res'.op = op

\* C26: get_card on an empty deck raises DeckEmptyError and leaves the
\* deck empty, every time; on a deck that holds cards it returns the card
\* added last of those in the deck, the top, and the deck is one card
\* shorter; so add_card(c) and then get_card() returns c and leaves the
\* deck as it was before the two.
C26_AddAndGet ==
    /\ [][DeckCall("get_card") =>
            IF deck = <<>>
            THEN res'.error = "DeckEmptyError" /\ deck' = <<>>
            ELSE /\ res'.error = ""
                 /\ res'.card = deck[Len(deck)]
                 /\ Len(deck') = Len(deck) - 1
                 /\ deck' = SubSeq(deck, 1, Len(deck) - 1)]_vars
    /\ [][DeckCall("add_card") =>
            /\ deck' = deck \o <<res'.card>>
            /\ get_card(deck').error = ""
            /\ get_card(deck').card = res'.card
            /\ get_card(deck').deck = deck]_vars

\* C26 witness: get_card has raised DeckEmptyError, the deck is empty.
C26_Witness ==
    /\ pc = "deck"
    /\ res.op = "get_card"
    /\ res.error = "DeckEmptyError"
    /\ deck = <<>>

(***************************************************************************)
(* C27: new_deck                                                           *)
(***************************************************************************)
\* C27: new_deck, whatever the deck held, sets the deck to the 52 cards,
\* each once, suit by suit in the order Spades, Diamonds, Hearts, Clubs
\* and inside a suit in the order 2, ..., 10, Jack, Queen, King, Ace (the
\* model keeps the DeckSize topmost of them): the deck is not empty, and
\* its top card is the Ace of Clubs.
C27_NewDeck ==
    /\ [][DeckCall("new_deck") =>
            /\ deck' = SubSeq(standard_deck, 52 - DeckSize + 1, 52)
            /\ deck' # <<>>
            /\ suit_name(deck'[Len(deck')]) = "Clubs"
            /\ ALL_RANKS[deck'[Len(deck')].rank - 1] = "Ace"]_vars
    /\ []((pc = "deck" /\ res.op = "new_deck") =>
            /\ Len(standard_deck) = 52
            /\ \A a, b \in 1..52 : a # b => standard_deck[a] # standard_deck[b]
            /\ \A s \in 1..4 : \A r \in 1..13 :
                /\ suit_name(standard_deck[13 * (s - 1) + r]) = SuitNames[s]
                /\ ALL_RANKS[standard_deck[13 * (s - 1) + r].rank - 1] = ALL_RANKS[r]
            /\ SuitNames = <<"Spades", "Diamonds", "Hearts", "Clubs">>
            /\ ALL_RANKS = <<"2", "3", "4", "5", "6", "7", "8", "9", "10",
                             "Jack", "Queen", "King", "Ace">>)

\* C27 witness: new_deck was called on a deck that did not hold the cards
\* of a new deck; Hearts-4, added before, is gone.
C27_Witness ==
    /\ pc = "deck"
    /\ res.op = "new_deck"
    /\ deck = initiate_deck
    /\ \A k \in 1..Len(deck) : deck[k] # [suit |-> 3, rank |-> 4]

(***************************************************************************)
(* C28: shuffle                                                            *)
(***************************************************************************)
\* C28: shuffle() rearranges the deck in place: the deck has as many cards
\* after it as before, and each card as often; an empty deck stays empty
\* and a deck of one card keeps its card.
C28_Shuffle ==
    [][DeckCall("shuffle") =>
        /\ Len(deck') = Len(deck)
        /\ SameCards(deck', deck)
        /\ Len(deck) <= 1 => deck' = deck]_vars

\* C28 witness: a shuffle has left the cards of a new deck with a card
\* added, in another order.
C28_Witness ==
    /\ pc = "deck"
    /\ res.op = "shuffle"
    /\ Len(deck) = DeckSize + 1
    /\ SameCards(deck, Append(initiate_deck, [suit |-> 1, rank |-> 13]))
    /\ deck # Append(initiate_deck, [suit |-> 1, rank |-> 13])

(***************************************************************************)
(* C29: sort_cards                                                         *)
(***************************************************************************)
\* The list names every suit once.
IsSuitOrder(order) ==
    /\ Len(order) = Len(SuitNames)
    /\ \A s \in 1..Len(SuitNames) : \E k \in 1..Len(order) : order[k] = SuitNames[s]

\* The place of a suit in an order of the suits.
PlaceIn(order, suit) == CHOOSE k \in 1..Len(order) : order[k] = suit

\* What sort_cards has returned for an order of the four suits: all the
\* cards of the deck, suit by suit in the order given and by rank upwards
\* inside a suit; sorted again in the same order it is the same.
C29_Sorted ==
    (pc = "deck" /\ res.op = "sort_cards" /\ IsSuitOrder(res.order)) =>
        /\ SameCards(res.value, deck)
        /\ \A a, b \in 1..Len(res.value) :
            a < b =>
                /\ PlaceIn(res.order, suit_name(res.value[a]))
                        <= PlaceIn(res.order, suit_name(res.value[b]))
                /\ suit_name(res.value[a]) = suit_name(res.value[b]) =>
                        res.value[a].rank <= res.value[b].rank
        /\ sort_cards(res.value, res.order) = res.value

\* C29: sort_cards(order) returns a new deck with all the cards of the
\* deck, grouped by suit in the order given and inside a suit by rank
\* upwards, for every content of the deck and every order of the suits;
\* the deck itself is left as it is, and the result sorted again in the
\* same order is equal to itself.
C29_SortCards ==
    /\ []C29_Sorted
    /\ [][DeckCall("sort_cards") => deck' = deck]_vars

\* C29 witness: a deck of four cards of three suits, not in the order
\* asked for, was sorted.
C29_Witness ==
    /\ pc = "deck"
    /\ res.op = "sort_cards"
    /\ res.order = <<"Diamonds", "Spades", "Clubs", "Hearts">>
    /\ Len(deck) = 4
    /\ Cardinality({suit_name(deck[k]) : k \in 1..Len(deck)}) = 3
    /\ res.value # deck

(***************************************************************************)
(* C30: Card(suit, rank)                                                   *)
(***************************************************************************)
\* The label is the name of a suit, of a rank.
RecognizedSuit(label) == label \in {"Spades", "Diamonds", "Hearts", "Clubs"}

RecognizedRank(label) ==
    label \in {"2", "3", "4", "5", "6", "7", "8", "9", "10", "Jack", "Queen", "King", "Ace"}

\* C30 as stated: for every pair of labels, a suit label that is not
\* recognized makes Card raise InvalidCardSuitError, a rank label that is
\* not recognized, with a suit that is, makes it raise InvalidCardRankError,
\* and a card is made only when both are recognized.
C30_AsClaimed ==
    (pc = "card" /\ res.op = "Card") =>
        /\ ~RecognizedSuit(res.suit) => res.error = "InvalidCardSuitError"
        /\ (RecognizedSuit(res.suit) /\ ~RecognizedRank(res.rank)) =>
                res.error = "InvalidCardRankError"
        /\ res.error = "" <=> (RecognizedSuit(res.suit) /\ RecognizedRank(res.rank))

(***************************************************************************)
(* run.py: entry() and main(), the command line of the game.  main() makes *)
(* one Game from the arguments and plays it again for as long as the       *)
(* operator agrees; entry() catches KeyboardInterrupt and prints the       *)
(* farewell in its finally clause.  pc = "done" is the "Play again?"       *)
(* prompt here, "finally" the finally clause about to run.                 *)
(***************************************************************************)
\* The games of one run, and the invalid answers given in a row.
MaxGames == 2
MaxRetries == 1

\* args.names and args.rounds: argparse takes one name or more and any int.
RunNameLists == {<<"Berkelly">>, <<"first">>}
RunRounds == {0, 1}

\* What the operator types at "Play again? (Y/N)".
Responses == {"y", "N", "Yes", "NO", "maybe", ""}

\* str.lower() on the responses
lower(response) ==
    CASE response = "N" -> "n"
      [] response = "Yes" -> "yes"
      [] response = "NO" -> "no"
      [] OTHER -> response

\* response.lower() in ["y", "n", "yes", "no"]
valid_response(response) == lower(response) \in {"y", "n", "yes", "no"}

\* response.lower() in ["n", "no"]
declines(response) == lower(response) \in {"n", "no"}

Goodbye == [category |-> "print", text |-> <<"\n", "Goodbye.">>]
NotValid == [category |-> "print", text |-> <<"Not a valid response.">>]

\* A finally clause that prints nothing.
entry_finally_silent(o) == o

\* finally: print("\nGoodbye.")
entry_finally_output(o) == Append(o, Goodbye)

RECURSIVE trailing(_, _)
\* The number of messages m that o ends with.
trailing(o, m) ==
    IF o = <<>> \/ o[Len(o)] # m THEN 0
    ELSE 1 + trailing(SubSeq(o, 1, Len(o) - 1), m)

\* The number of times the outer loop has called game.play().
games_played(o) == Cardinality({k \in 1..Len(o) : o[k].category = "WELCOME"})

\* game = Game(args.names, max_rounds=args.rounds)
main_game ==
    \E names \in RunNameLists, rounds \in RunRounds :
        game_init(names, [given |-> FALSE, cards |-> <<>>], rounds, TRUE)

\* input("Play again? (Y/N)") returns: an answer that is not valid is
\* refused and asked again; a valid one leaves the inner loop, new_game()
\* is called whatever the answer, and the outer loop plays again or ends.
main_response(response) ==
    /\ pc = "done"
    /\ IF ~valid_response(response)
       THEN /\ trailing(out, NotValid) < MaxRetries
            /\ out' = Append(out, NotValid)
            /\ UNCHANGED <<players, deck, current_round, is_active, pc>>
       ELSE /\ declines(response) \/ games_played(out) < MaxGames
            /\ is_active' = TRUE
            /\ deck' \in new_game_decks(deck)
            /\ current_round' = 1
            /\ players' = new_game_players(players)
            /\ pc' = IF declines(response) THEN "finally" ELSE "ready"
            /\ UNCHANGED out
    /\ UNCHANGED <<max_rounds, turn, args, error, res>>

\* KeyboardInterrupt arrives while main() runs: except KeyboardInterrupt: pass
interrupt ==
    /\ pc \in {"start", "ready", "while", "for", "input", "done"}
    /\ pc' = "finally"
    /\ UNCHANGED <<players, deck, current_round, is_active, max_rounds, turn, out,
                   args, error, res>>

\* The finally clause of entry(): after main() returned or was interrupted
\* the run is over; an exception that is not KeyboardInterrupt goes on.
entry_finally ==
    /\ pc \in {"finally", "failed", "raised"}
    /\ out' = entry_finally_output(out)
    /\ pc' = IF pc = "finally" THEN "exited" ELSE "unwinding"
    /\ UNCHANGED <<players, deck, current_round, is_active, max_rounds, turn, args,
                   error, res>>

\* The exception entry() did not catch leaves the program: the interpreter
\* writes its traceback.
entry_traceback ==
    /\ pc = "unwinding"
    /\ out' = Append(out, [category |-> "traceback", text |-> <<error>>])
    /\ pc' = "crashed"
    /\ UNCHANGED <<players, deck, current_round, is_active, max_rounds, turn, args,
                   error, res>>

MainGame == main_game
MainResponse == \E response \in Responses : main_response(response)
Interrupt == interrupt
EntryFinally == entry_finally
EntryTraceback == entry_traceback

NextRun ==
    \/ MainGame
    \/ PlayWelcome
    \/ PlayRoundStart
    \/ NextRoundTurnStart
    \/ NextRoundDraw
    \/ PlayRoundEnd
    \/ PlayGameOver
    \/ MainResponse
    \/ Interrupt
    \/ EntryFinally
    \/ EntryTraceback

\* Nothing holds the program between the end of main() and the finally
\* clause, nor between the finally clause and the traceback.
SpecRun ==
    /\ Init
    /\ [][NextRun]_vars
    /\ WF_vars(EntryFinally)
    /\ WF_vars(EntryTraceback)

\* The farewells in the output.
Farewells(o) == Cardinality({k \in 1..Len(o) : o[k] = Goodbye})

\* main() has returned or was interrupted, and the finally clause is next.
MainEnded == pc = "finally"

\* The run is over, and the output ends with the one farewell.
FarewellLast ==
    /\ pc = "exited"
    /\ out # <<>>
    /\ out[Len(out)] = Goodbye
    /\ Farewells(out) = 1

\* C31: however the run ends, by the operator declining another game or by
\* an interrupt at an acknowledgment wait or at the play-again prompt, the
\* farewell is eventually printed, exactly once and as the last output:
\* no farewell is printed before the run has ended, the end of main() leads
\* to the run being over with the farewell last, and nothing follows it.
C31_Farewell ==
    /\ [](pc \in {"start", "ready", "while", "for", "input", "done", "finally"}
            => Farewells(out) = 0)
    /\ [](pc = "exited" => FarewellLast)
    /\ (MainEnded ~> FarewellLast)
    /\ [][pc = "exited" => UNCHANGED out]_vars

\* The operator declined after a second game, and the farewell was printed.
C31_Witness ==
    /\ FarewellLast
    /\ games_played(out) = 2
    /\ players[1].hand = <<>>

\* An interrupt at the acknowledgment wait of a turn ended the run.
C31_WitnessInterrupt ==
    /\ FarewellLast
    /\ Len(out) > 1
    /\ out[Len(out) - 1].category = "TURN START"

(***************************************************************************)
(* One play() of a game that was constructed: the operator acknowledges    *)
(* every turn in the end, and nothing else holds the loops of play().      *)
(***************************************************************************)
GameInitPlay ==
    \E names \in ValidNameLists, deck_argument \in DeckArguments,
       mr \in 1..MaxRounds : game_init(names, deck_argument, mr, TRUE)

NextPlay ==
    \/ GameInitPlay
    \/ PlayWelcome
    \/ PlayRoundStart
    \/ NextRoundTurnStart
    \/ NextRoundDraw
    \/ PlayRoundEnd
    \/ PlayGameOver

\* Control moves on from every point of a play() that has begun and is not
\* over: the interpreter executes the next statement, and the input() of
\* a turn returns.  Every step of play() moves pc.
play_continues ==
    /\ pc \in {"while", "for", "input"}
    /\ pc' \in {"while", "for", "input", "done", "raised"} \ {pc}

SpecPlay == Init /\ [][NextPlay]_vars /\ WF_pc(play_continues)

\* The turn ends shown: the draws of the play.
Draws(o) == Cardinality({k \in 1..Len(o) : IsTurnEnd(o[k])})

\* C33: play() terminates: when every acknowledgment completes, a play()
\* with N participants and max_rounds = R reaches the game over, after
\* exactly N * R draws, whatever the deck holds and also when the deck runs
\* out on the way; no play draws more than N * R cards, and the step after
\* an acknowledgment can always be taken.
C33_Terminates ==
    /\ (pc \in {"while", "for", "input"} ~> pc = "done")
    /\ [](pc = "input" => turn \in 1..Len(players) /\ recovery_decks(deck) # {})
    /\ [](pc = "done" => /\ IsGameOver(out[Len(out) - 1])
                         /\ Draws(out) = Len(players) * max_rounds
                         /\ cards_held(players) = Len(players) * max_rounds)
    /\ [](Draws(out) <= Len(players) * max_rounds)

\* A game of three participants and two rounds is over after six draws, and
\* the deck ran out on the way.
C33_Witness ==
    /\ pc = "done"
    /\ Len(players) = 3
    /\ max_rounds = 2
    /\ Draws(out) = 6
    /\ \E k \in 1..Len(out) : out[k].category = "EMPTY DECK"

\* What the grammar of play() tells apart in a message: its kind, and the
\* participant or the round number it names.
Shape(kind, name, number) == [kind |-> kind, name |-> name, number |-> number]

ShapeOf(m) ==
    CASE m.category = "WELCOME" -> Shape("WELCOME", "", 0)
      [] m.category = "ROUND START" -> Shape("ROUND START", "", m.current_round)
      [] m.category = "TURN START" -> Shape("TURN START", m.current_player_name, 0)
      [] IsTurnEnd(m) -> Shape("TURN END", m.current_player_name, 0)
      [] IsRoundEnd(m) -> Shape("ROUND END", "", 0)
      [] IsGameOver(m) -> Shape("GAME OVER", "", 0)
      [] IsPrint(m) -> Shape("LEADERBOARD", "", 0)
      [] OTHER -> Shape(m.category, "", 0)

RECURSIVE TurnsOf(_)
\* TURN START and TURN END of every participant, in the order of the list.
TurnsOf(ps) ==
    IF ps = <<>> THEN <<>>
    ELSE <<Shape("TURN START", Head(ps).name, 0), Shape("TURN END", Head(ps).name, 0)>>
         \o TurnsOf(Tail(ps))

RECURSIVE RoundsOf(_, _, _)
\* The rounds r..last: ROUND START(r), the turns, one round end.
RoundsOf(ps, r, last) ==
    IF r > last THEN <<>>
    ELSE <<Shape("ROUND START", "", r)>> \o TurnsOf(ps) \o <<Shape("ROUND END", "", 0)>>
         \o RoundsOf(ps, r + 1, last)

\* The events of one play() of a fresh game, the EMPTY DECK messages aside.
Grammar(ps, mr) ==
    <<Shape("WELCOME", "", 0)>> \o RoundsOf(ps, 1, mr)
    \o <<Shape("GAME OVER", "", 0), Shape("LEADERBOARD", "", 0)>>

IsEmptyDeck(m) == m.category = "EMPTY DECK"
NotEmptyDeck(m) == ~IsEmptyDeck(m)

\* The output of play() so far follows the grammar: without the EMPTY DECK
\* messages it is the beginning of the one sequence the grammar allows, all
\* of it when play() is over; an EMPTY DECK stands between the TURN START
\* and the TURN END of a turn, one at most.
C32_Follows ==
    pc \in {"ready", "while", "for", "input", "done"} =>
        LET shown == SelectSeq(out, NotEmptyDeck)
            grammar == Grammar(players, max_rounds)
        IN /\ Len(shown) <= Len(grammar)
           /\ \A k \in 1..Len(shown) : ShapeOf(shown[k]) = grammar[k]
           /\ pc = "done" => Len(shown) = Len(grammar)
           /\ \A k \in 1..Len(out) :
                IsEmptyDeck(out[k]) =>
                    /\ 1 < k /\ k < Len(out)
                    /\ out[k - 1].category = "TURN START"
                    /\ IsTurnEnd(out[k + 1])

\* A card is drawn only by the participant whose TURN START is the last
\* message shown, after the acknowledgment of that turn.
C32_Draw ==
    (pc # "start" /\ players' # players) =>
        /\ pc = "input"
        /\ out[Len(out)] = [category |-> "TURN START",
                            current_player_name |-> players[turn].name]
        /\ \A j \in 1..Len(players) : j # turn => players'[j] = players[j]
        /\ Len(players'[turn].hand) = Len(players[turn].hand) + 1

\* C32: the events of one play() on a fresh game follow the grammar:
\* WELCOME once and first; for r = 1..max_rounds ROUND START(r), then for
\* each participant in list order TURN START, at most one EMPTY DECK and one
\* TURN END, then one round end; then one game over and the leaderboard; no
\* card is drawn before the TURN START of the turn and its acknowledgment.
C32_Grammar == []C32_Follows /\ [][C32_Draw]_vars

\* A play of two participants and two rounds is over, and an EMPTY DECK was
\* shown in it.
C32_Witness ==
    /\ pc = "done"
    /\ Len(players) = 2
    /\ max_rounds = 2
    /\ \E k \in 1..Len(out) : IsEmptyDeck(out[k])

\* The round counter stays within 1..max_rounds + 1 once the game is made,
\* and an active game at the top of the loop of play() has a round to play.
C34_Within ==
    /\ pc \notin {"start", "failed"} =>
            1 <= current_round /\ current_round <= max_rounds + 1
    /\ (pc = "while" /\ is_active) => current_round <= max_rounds

\* The step after the last turn of a round, where the round end is decided:
\* the counter less one is the number the ROUND START of the round showed.
C34_RoundEnd ==
    (pc = "for" /\ pc' = "while") =>
        LET rounds == RoundNumbersShown(out)
        IN /\ rounds # <<>>
           /\ current_round' - 1 = rounds[Len(rounds)]
           /\ IsRoundEnd(out'[Len(out')])

\* C34: in every reachable state of a game 1 <= round counter <=
\* max_rounds + 1; an active game at the top of the play loop has a round
\* counter of at most max_rounds; when the round end is decided the round
\* counter less one is the number of the round just completed, in every
\* round, the last included.
C34_RoundCounter == []C34_Within /\ [][C34_RoundEnd]_vars

\* The last of two rounds is over: the counter is max_rounds + 1 and the
\* game is no longer active.
C34_Witness ==
    /\ pc = "while"
    /\ ~is_active
    /\ max_rounds = 2
    /\ current_round = 3
    /\ IsRoundEnd(out[Len(out)])

\* The cards participant j holds in round r when the turn of participant t
\* is the next: r for those before t, who have drawn, r - 1 for the others.
HandLength(j, r, t) == IF j < t THEN r ELSE r - 1

\* Outside a round every hand has current_round - 1 cards; inside round r
\* those who have taken their turn have r cards and the others r - 1; when
\* a play that ran its rounds is over every hand has max_rounds cards.
C35_Hands ==
    /\ pc \in {"ready", "while", "done", "idle"} =>
            \A j \in 1..Len(players) : Len(players[j].hand) = current_round - 1
    /\ pc \in {"for", "input"} =>
            \A j \in 1..Len(players) :
                Len(players[j].hand) = HandLength(j, current_round, turn)
    /\ (pc = "done" /\ RoundNumbersShown(out) # <<>>) =>
            \A j \in 1..Len(players) : Len(players[j].hand) = max_rounds

\* The draw of round r puts the card shown at place r of the hand (hand[r-1]
\* counted from 0) and leaves the cards of the rounds before in place.
C35_Draw ==
    (pc = "input" /\ pc' = "for") =>
        LET hand == players'[turn].hand
        IN /\ Len(hand) = current_round
           /\ hand[current_round] = out'[Len(out')].current_card
           /\ SubSeq(hand, 1, current_round - 1) = players[turn].hand

\* C35: during play() on a fresh or new_game()-reset game, at ROUND START(r)
\* every hand has r - 1 cards; inside round r the participants who have
\* taken their turn have r cards and the others r - 1; at game over every
\* hand has max_rounds cards; so the card drawn in round r is hand[r - 1].
C35_HandLength == []C35_Hands /\ [][C35_Draw]_vars

\* In the second round the first of two participants has drawn and the
\* second has not.
C35_Witness ==
    /\ pc = "for"
    /\ Len(players) = 2
    /\ current_round = 2
    /\ turn = 2
    /\ Len(players[1].hand) = 2
    /\ Len(players[2].hand) = 1

\* The cards the deck of the game holds when play() starts: those of the
\* deck that was given and adopted, or the full deck.
StartingCards ==
    IF args.deck.given /\ args.deck.cards # <<>> THEN Len(args.deck.cards)
    ELSE DeckSize

\* Draw number k finds the deck empty: the first after the d cards of the
\* start, and every DeckSize draws after that one.
FindsDeckEmpty(k, d) == k > d /\ (k - d - 1) % DeckSize = 0

\* The cards left in the deck after k draws.
CardsLeft(k, d) ==
    IF k <= d THEN d - k ELSE DeckSize - 1 - ((k - d - 1) % DeckSize)

\* The place in o of the TURN END of draw number k.
PlaceOfDraw(o, k) ==
    CHOOSE i \in 1..Len(o) : IsTurnEnd(o[i]) /\ Draws(SubSeq(o, 1, i)) = k

\* C36: EMPTY DECK is shown exactly when the draw of a turn finds the deck
\* empty: in a game whose deck holds d cards when play() starts, at draw
\* number d + 1 and then every full deck of draws after that (52 in the
\* program, DeckSize here); the deck holds a full deck less one right after
\* each recovery draw; a full deck and N * max_rounds draws within it show
\* no EMPTY DECK.
C36_EmptyDeck ==
    pc \in {"ready", "while", "for", "input", "done"} =>
        /\ \A k \in 1..Draws(out) :
                IsEmptyDeck(out[PlaceOfDraw(out, k) - 1])
                    <=> FindsDeckEmpty(k, StartingCards)
        /\ Len(SelectSeq(out, IsEmptyDeck))
                = Cardinality({k \in 1..Draws(out) : FindsDeckEmpty(k, StartingCards)})
        /\ Len(deck) = CardsLeft(Draws(out), StartingCards)
        /\ (Draws(out) > 0 /\ FindsDeckEmpty(Draws(out), StartingCards))
                => Len(deck) = DeckSize - 1
        /\ (StartingCards = DeckSize /\ Len(players) * max_rounds <= DeckSize)
                => \A k \in 1..Len(out) : ~IsEmptyDeck(out[k])

\* A game that started with a deck of one card has shown EMPTY DECK at the
\* second draw and again at draw 2 + DeckSize.
C36_Witness ==
    /\ pc = "for"
    /\ StartingCards = 1
    /\ Draws(out) = 2 + DeckSize
    /\ IsEmptyDeck(out[Len(out) - 1])
    /\ Cardinality({k \in 1..Len(out) : IsEmptyDeck(out[k])}) = 2

RECURSIVE HandsOf(_)
\* The cards of all the hands, one hand after the other.
HandsOf(ps) == IF ps = <<>> THEN <<>> ELSE Head(ps).hand \o HandsOf(Tail(ps))

\* The deck and the hands are pairwise disjoint and are together exactly the
\* cards of the full deck: every card of the full deck is once in them.
Conserved == SameCards(deck \o HandsOf(players), initiate_deck)

\* A game that started from the full deck and is at the start of a play or
\* in a play whose rounds the output shows.
FullDeckPlay ==
    /\ ~args.deck.given
    /\ \/ pc = "ready"
       \/ pc \in {"while", "for", "input", "done"} /\ RoundNumbersShown(out) # <<>>

\* C37: in a game started from the full deck (made by default, or reset by
\* new_game()), until the first EMPTY DECK the deck and the hands are
\* pairwise disjoint and together exactly the full deck; after a recovery
\* this no longer holds: every card of the new deck is still in a hand, and
\* the hands hold a card that was drawn twice.
C37_Conservation ==
    FullDeckPlay =>
        IF \A k \in 1..Len(out) : ~IsEmptyDeck(out[k])
        THEN Conserved
        ELSE /\ ~Conserved
             /\ Range(deck) \subseteq Range(HandsOf(players))
             /\ Range(initiate_deck) \subseteq Range(HandsOf(players))
             /\ Len(HandsOf(players)) > Cardinality(Range(HandsOf(players)))

\* The deck ran out in a game of two participants, and the card drawn from the new deck is one the other participant holds.
C37_Witness ==
    /\ FullDeckPlay
    /\ pc = "for"
    /\ Len(players) = 2
    /\ IsEmptyDeck(out[Len(out) - 1])
    /\ out[Len(out)].current_card \in Range(players[1].hand)
    /\ out[Len(out)].current_player_name = players[2].name

\* The game over message for the standings of ps.
GameOverFor(ps) ==
    IF first(ps, 0).tie THEN [category |-> "GAME OVER TIE"]
    ELSE [category |-> "GAME OVER", game_winner |-> first(ps, 0).name]

\* play() is called on a game that is not active: WELCOME is shown and the
\* game is as it was.
C38_Welcome ==
    (pc \in {"ready", "idle"} /\ pc' = "while" /\ ~is_active) =>
        /\ out' = Append(out, [category |-> "WELCOME"])
        /\ UNCHANGED <<players, deck, current_round, is_active, max_rounds>>

\* At the top of the loop of a game that is not active no round and no turn
\* is run: the game over for the current standings and the leaderboard are
\* shown, and the game is as it was.
C38_GameOver ==
    (pc = "while" /\ ~is_active) =>
        /\ pc' = "done"
        /\ out' = out \o <<GameOverFor(players),
                           [category |-> "print", text |-> players_str(players)]>>
        /\ UNCHANGED <<players, deck, current_round, is_active, max_rounds>>

\* end_game() changes the active flag and nothing else.
C38_EndGame ==
    (pc \in {"ready", "idle"} /\ pc' = "idle") =>
        /\ ~is_active'
        /\ UNCHANGED <<players, deck, current_round, max_rounds, out>>

\* The whole output of a play() that showed no round.
C38_Output ==
    (pc = "done" /\ RoundNumbersShown(out) = <<>>) =>
        out = <<[category |-> "WELCOME"], GameOverFor(players),
                [category |-> "print", text |-> players_str(players)]>>

\* C38: play() on a game that is not active (after end_game(), or called a
\* second time without new_game()) runs no round and no turn: it shows
\* WELCOME, then the game over and the leaderboard for the current
\* standings, and leaves the deck, the hands, the round counter and the
\* active flag as they were; end_game() changes only the active flag.
C38_InactivePlay ==
    /\ []C38_Output
    /\ [][C38_Welcome /\ C38_GameOver /\ C38_EndGame]_vars

\* A second play() without new_game() is over: only WELCOME, the game over
\* and the leaderboard were shown, and the hands of the first play are held.
C38_Witness ==
    /\ pc = "done"
    /\ Len(out) = 3
    /\ current_round = max_rounds + 1
    /\ \A j \in 1..Len(players) : Len(players[j].hand) = max_rounds

\* A step of a game that goes on: the game exists and the step is not
\* new_game().
SameGameStep == pc # "start" /\ ~NewGameStep

\* The results of the rounds that have ended stay: the score of every
\* participant in such a round and the first place of the round are the same
\* after the step; no cumulative score goes down; a hand only grows at its
\* tail.
C39_Step ==
    SameGameStep =>
        /\ \A j \in 1..Len(players) :
            /\ \A r \in 1..(current_round - 1) :
                    score(players'[j], r) = score(players[j], r)
            /\ score(players'[j], 0) >= score(players[j], 0)
            /\ SubSeq(players'[j].hand, 1, Len(players[j].hand)) = players[j].hand
        /\ \A r \in 1..(current_round - 1) : first(players', r) = first(players, r)

\* C39: the results of a completed round are stable: once round r has ended,
\* for the rest of the game (until new_game() or reset()) the score(r) of
\* every participant and the first place of round r do not change, since a
\* hand only grows by appending at its tail; cumulative scores never go down
\* during a game.
C39_Stable == [][C39_Step]_vars

\* In the second round the second of two participants has drawn and leads
\* the game, while the first round is still the other participant's.
C39_Witness ==
    /\ pc = "for"
    /\ Len(players) = 2
    /\ current_round = 2
    /\ turn = 3
    /\ ~first(players, 1).tie
    /\ ~first(players, 0).tie
    /\ first(players, 1).player = 1
    /\ first(players, 0).player = 2

====
